---- MODULE Spec2Model ----
(***************************************************************************)
(* fusion-producer: message extraction and filtering pipeline, parser      *)
(* registry, serializer, egress producer and block handler, as state       *)
(* machines.                                                               *)
(*                                                                         *)
(*   Spec          filter_transaction over an initialised parser registry  *)
(*   SpecAnyConfig the same over any configuration the loader accepts      *)
(*   SpecPure      the pure helpers match_account_filter,                  *)
(*                 message_type_from and write_json_with_prefix applied    *)
(*                 to drawn inputs                                         *)
(*   SpecRegistry  concurrent init_parsers / get_parsers on PARSERS        *)
(*   SpecHttp      the broadcast ring, MakeProducerService and             *)
(*                 ProducerService hand-over of receivers, subscribers     *)
(*   SpecProducer  Producer::send_data / send_data_sync on either          *)
(*                 transport, the end of the HTTP/2 server task            *)
(*   SpecStdio     concurrent send_data_sync calls on standard output,     *)
(*                 write by write                                          *)
(*   SpecBlock     handle_block, transaction() and the detached send tasks *)
(*   SpecScanner   S3Scanner::run driving handle_block over an archive     *)
(***************************************************************************)
EXTENDS Integers, Sequences, FiniteSets, TLC

VARIABLES
    PARSERS,        \* filter/parser.rs:10  OnceLock<Vec<Parser>>: <<>> unset, <<v>> set
    pc,             \* position of the filter_transaction caller: "idle" | "returned"
    tx,             \* the Transaction handed to filter_transaction
    shard_state,    \* Option<&ShardStateStuff>: <<>> or <<s>>
    start_date,     \* NaiveDate argument, in days since the epoch
    filtered,       \* Vec<FilteredMessage> returned by filter_transaction
    pure_call,      \* the last call of a pure helper: its arguments and result
    init_pc,        \* per caller of init_parsers: "idle" | "built" (before PARSERS.set)
    init_built,     \* per caller: the Vec<Parser> built by init_all_parsers
    init_after,     \* per caller: whether the call began after PARSERS was set
    init_log,       \* the calls of init_parsers that have returned, in order
    observed,       \* the values get_parsers has returned
    panicked,       \* a call has panicked (unwrap on an unset PARSERS, unimplemented!)
    first_stored,   \* the value of the first successful PARSERS.set
    tail,           \* broadcast channel: number of frames accepted so far
    make_receiver,  \* MakeProducerService.receiver: its position in the ring
    conns,          \* per connection: ProducerService.messages_receiver position
    streams,        \* per /messages/data response: receiver, frames delivered, status
    last_response,  \* the response of the last ProducerService::call
    server,         \* the task spawned by start_producer_service: "running" | "ended"
    last_send,      \* the last Producer::send_data / send_data_sync call and its result
    transport,      \* Producer.inner: "Http2" | "Stdio"
    stdout,         \* the bytes written to standard output so far
    writes,         \* number of sends made on the Stdio transport
    writers,        \* per concurrent send task: its send_data_sync call in progress
    stdout_lock,    \* the lock of io::stdout(): 0 free, w held by send task w
    hb,             \* the handle_block call: its position in the block and its result
    tx_log,         \* per transaction reached by handle_block: what transaction() did
    tasks,          \* the detached send tasks spawned by transaction()
    egress,         \* the buffers the producer has accepted, in order
    scanner         \* S3Scanner::run: its position in the archive stream and its result

filterVars == <<pc, tx, shard_state, start_date, filtered>>
pureVars == <<pure_call>>
registryVars == <<init_pc, init_built, init_after, init_log, observed, panicked, first_stored>>
httpVars == <<tail, make_receiver, conns, streams, last_response, server>>
producerVars == <<last_send, transport, stdout, writes, writers, stdout_lock>>
blockVars == <<hb, tx_log, tasks, egress, scanner>>

vars == <<PARSERS, filterVars, pureVars, registryVars, httpVars, producerVars, blockVars>>

(***************************************************************************)
(* Bounds of the model                                                     *)
(***************************************************************************)
MaxOut == 2         \* outbound messages per transaction
MaxRecords == 2     \* FilterRecord per FilterConfig
NumCallers == 2     \* threads that may call init_parsers
MaxInitCalls == 3   \* calls of init_parsers in a run
Capacity == 2       \* Transport::Http2 { capacity }
MaxFrames == 3      \* frames sent in a run
MaxConns == 2       \* HTTP/2 connections accepted in a run
MaxStreams == 2     \* /messages/data responses in a run
MaxWrites == 2      \* sends on the Stdio transport in a run
NumWriters == 2     \* send tasks writing to standard output at the same time
MaxChunk == 6       \* bytes taken by a write(2) that takes less than it was given
MaxBlocks == 1      \* calls of handle_block in a run
MaxScanCalls == 3   \* calls of handle_block made by the S3 scanner in a run

(***************************************************************************)
(* Data model                                                              *)
(***************************************************************************)
\* Option<MsgAddressInt>: 0 is None, 1.. are addresses
NoAddr == 0
Addrs == {1, 2}

Hashes == {"h1", "h2"}

HeaderKinds == {"IntMsgInfo", "ExtInMsgInfo", "ExtOutMsgInfo"}

MessageTypes == {"InternalInbound", "InternalOutbound", "ExternalInbound", "ExternalOutbound"}

\* chrono: seconds in a UTC day, NaiveDateTime::from_timestamp_opt(now, 0).date()
SecsPerDay == 86400

EmptyOutName == "%%EmptyOutMessage%%"
RawBodyName == "%%RawBodyMessage%%"

\* types/mod.rs:18  message_type_from(header, is_in_message)
message_type_from_ext_by_direction(msg, is_in_message) ==
    CASE msg = "IntMsgInfo" -> IF is_in_message THEN "InternalInbound" ELSE "InternalOutbound"
      [] msg = "ExtInMsgInfo" -> IF is_in_message THEN "ExternalInbound" ELSE "ExternalOutbound"
      [] msg = "ExtOutMsgInfo" -> "ExternalOutbound"

message_type_from(msg, is_in_message) ==
    CASE msg = "IntMsgInfo" -> IF is_in_message THEN "InternalInbound" ELSE "InternalOutbound"
      [] msg = "ExtInMsgInfo" -> "ExternalInbound"
      [] msg = "ExtOutMsgInfo" -> "ExternalOutbound"

\* A cell of the transaction holding a message. ok = FALSE: the cell does not
\* decode as a Message (reference(0) or construct_from_cell / read_struct fails).
Msg(header, src, dst, body, ok) ==
    [header |-> header, src |-> src, dst |-> dst, body |-> body, ok |-> ok, hash |-> 0]

\* ton_block Message::src_ref / dst_ref as used at filter/mod.rs:101
src_ref(m) == IF m.header = "ExtInMsgInfo" THEN NoAddr ELSE m.src
dst_ref(m) == IF m.header = "ExtOutMsgInfo" THEN NoAddr ELSE m.dst

has_body(m) == m.body # ""

\* types/mod.rs:30  struct FilteredMessage
FilteredMessage(name, message, message_type, t, index) ==
    [name |-> name, message_hash |-> message.hash, message |-> message,
     message_type |-> message_type, tx |-> t,
     index_in_transaction |-> index % 65536,
     contract_name |-> "", filter_name |-> ""]

(***************************************************************************)
(* Parsers (filter/parser.rs)                                              *)
(***************************************************************************)
ParseErr == [ok |-> FALSE, out |-> <<>>]
ParseOk(out) == [ok |-> TRUE, out |-> out]

AllDecode(t) ==
    /\ \A i \in 1..Len(t.out_msgs) : t.out_msgs[i].ok
    /\ \A i \in 1..Len(t.in_msg) : t.in_msg[i].ok

\* parser.rs:114  EmptyMessageParser::parse_empty_messages
parse_empty_messages_any_body(t) ==
    IF \E i \in 1..Len(t.out_msgs) : ~t.out_msgs[i].ok
    THEN ParseErr
    ELSE ParseOk([i \in 1..Len(t.out_msgs) |->
                    FilteredMessage(EmptyOutName, t.out_msgs[i],
                        message_type_from(t.out_msgs[i].header, FALSE), t, i - 1)])

parse_empty_messages_index_emitted(t) ==
    IF \E i \in 1..Len(t.out_msgs) : ~t.out_msgs[i].ok
    THEN ParseErr
    ELSE LET all == [i \in 1..Len(t.out_msgs) |->
                        FilteredMessage(EmptyOutName, t.out_msgs[i],
                            message_type_from(t.out_msgs[i].header, FALSE), t, i - 1)]
             kept == SelectSeq(all, LAMBDA c : ~has_body(c.message))
         IN ParseOk([i \in 1..Len(kept) |-> [kept[i] EXCEPT !.index_in_transaction = i - 1]])

parse_empty_messages(t) ==
    IF \E i \in 1..Len(t.out_msgs) : ~t.out_msgs[i].ok
    THEN ParseErr
    ELSE LET all == [i \in 1..Len(t.out_msgs) |->
                        FilteredMessage(EmptyOutName, t.out_msgs[i],
                            message_type_from(t.out_msgs[i].header, FALSE), t, i - 1)]
         IN ParseOk(SelectSeq(all, LAMBDA c : ~has_body(c.message)))

\* parser.rs:152  RawMessageParser::parse_raw_messages
parse_raw_messages_skip_inbound(t) ==
    IF ~AllDecode(t)
    THEN ParseErr
    ELSE ParseOk([i \in 1..Len(t.out_msgs) |->
                    FilteredMessage(RawBodyName, t.out_msgs[i],
                        message_type_from(t.out_msgs[i].header, FALSE), t, i - 1)])

parse_raw_messages_keep_partial(t) ==
    IF \E i \in 1..Len(t.in_msg) : ~t.in_msg[i].ok
    THEN ParseErr
    ELSE LET inbound == [i \in 1..Len(t.in_msg) |->
                            FilteredMessage(RawBodyName, t.in_msg[i],
                                message_type_from(t.in_msg[i].header, TRUE), t, 0)]
             bad == {i \in 1..Len(t.out_msgs) : ~t.out_msgs[i].ok}
             good == IF bad = {} THEN Len(t.out_msgs)
                     ELSE (CHOOSE i \in bad : \A j \in bad : i <= j) - 1
         IN ParseOk(inbound \o
                [i \in 1..good |->
                    FilteredMessage(RawBodyName, t.out_msgs[i],
                        message_type_from(t.out_msgs[i].header, FALSE), t, i - 1)])

parse_raw_messages(t) ==
    IF \E i \in 1..Len(t.in_msg) : ~t.in_msg[i].ok
    THEN ParseErr
    ELSE LET inbound == [i \in 1..Len(t.in_msg) |->
                            FilteredMessage(RawBodyName, t.in_msg[i],
                                message_type_from(t.in_msg[i].header, TRUE), t, 0)]
         IN IF \E i \in 1..Len(t.out_msgs) : ~t.out_msgs[i].ok
            THEN ParseErr
            ELSE ParseOk(inbound \o
                    [i \in 1..Len(t.out_msgs) |->
                        FilteredMessage(RawBodyName, t.out_msgs[i],
                            message_type_from(t.out_msgs[i].header, FALSE), t, i - 1)])

\* The identifiers of the ABI loaded for a Contract record
AbiNames == {"transfer"}

\* parser.rs:101  nekoton_abi::TransactionParser::parse, then FilteredMessage::from
\* (types/mod.rs:41): one candidate per message whose body is a function or event
\* of the ABI, the inbound message first.
parse_nekoton(t) ==
    IF ~AllDecode(t)
    THEN ParseErr
    ELSE LET inbound == [i \in 1..Len(t.in_msg) |->
                            FilteredMessage(t.in_msg[i].body, t.in_msg[i],
                                message_type_from(t.in_msg[i].header, TRUE), t, 0)]
             outbound == [i \in 1..Len(t.out_msgs) |->
                            FilteredMessage(t.out_msgs[i].body, t.out_msgs[i],
                                message_type_from(t.out_msgs[i].header, FALSE), t, i - 1)]
         IN ParseOk(SelectSeq(inbound \o outbound, LAMBDA c : c.name \in AbiNames))

\* parser.rs:98  InnerParser::parse
parse(inner_parser, t) ==
    CASE inner_parser = "Nekoton" -> parse_nekoton(t)
      [] inner_parser = "EmptyMessage" -> parse_empty_messages(t)
      [] inner_parser = "RawBodyMessageParser" -> parse_raw_messages(t)

(***************************************************************************)
(* Filter configuration (filter/config.rs)                                 *)
(***************************************************************************)
\* config.rs:47  Option<AddressOrCodeHash>
NoConstraint == [kind |-> "None", addr |-> NoAddr, hash |-> ""]
Address(a) == [kind |-> "Address", addr |-> a, hash |-> ""]
CodeHash(h) == [kind |-> "CodeHash", addr |-> NoAddr, hash |-> h]

\* config.rs:97  MessageFilter
MessageFilter(n, ty) == [message_name |-> n, message_type |-> ty]

\* config.rs:84  FilterEntry; message is an Option: <<>> or <<MessageFilter>>
FilterEntry(n, sender, receiver, message) ==
    [name |-> n, sender |-> sender, receiver |-> receiver, message |-> message]

\* config.rs:33  FilterRecord; abi_ok: whether the ABI file of a Contract record
\* can be read and compiled (always TRUE for the other filter types)
FilterRecord(filter_type, n, abi_ok, entries) ==
    [filter_type |-> filter_type, name |-> n, abi_ok |-> abi_ok, entries |-> entries]

(***************************************************************************)
(* Shard state                                                             *)
(***************************************************************************)
\* What the shard state holds for an address: the dictionary lookup fails,
\* the account is absent, reading the account fails, it has no code, or it
\* has code with the given hash.
AccountStatus == {"lookup_err", "absent", "read_err", "nocode"} \cup Hashes

ShardState(accounts_ok, account) == [accounts_ok |-> accounts_ok, account |-> account]

(***************************************************************************)
(* Filter engine (filter/mod.rs)                                           *)
(***************************************************************************)
\* filter/mod.rs:20  match_code_hash: Result<bool> as "true" | "false" | "err"
match_code_hash_codeless_matches(state, filter_hash, account) ==
    IF ~state.accounts_ok THEN "err"
    ELSE LET a == state.account[account]
         IN CASE a = "lookup_err" -> "err"
              [] a = "absent" -> "false"
              [] a = "read_err" -> "err"
              [] a = "nocode" -> "true"
              [] OTHER -> IF a = filter_hash THEN "true" ELSE "false"

match_code_hash(state, filter_hash, account) ==
    IF ~state.accounts_ok THEN "err"
    ELSE LET a == state.account[account]
         IN CASE a = "lookup_err" -> "err"
              [] a = "absent" -> "false"
              [] a = "read_err" -> "err"
              [] a = "nocode" -> "false"
              [] OTHER -> IF a = filter_hash THEN "true" ELSE "false"

\* filter/mod.rs:41  match_account_filter
match_account_filter(state, filter, value) ==
    CASE filter.kind = "Address" /\ value # NoAddr -> filter.addr = value
      [] filter.kind = "CodeHash" /\ value # NoAddr ->
            IF state # <<>>
            THEN match_code_hash(state[1], filter.hash, value) = "true"
            ELSE FALSE
      [] filter.kind # "None" /\ value = NoAddr -> FALSE
      [] filter.kind = "None" -> TRUE

\* filter/mod.rs:68  match_filter
match_filter_any_predicate(state, filter, src, dst, ext) ==
    LET src_match == match_account_filter(state, filter.sender, src)
        dst_match == match_account_filter(state, filter.receiver, dst)
        event_match == IF filter.message # <<>>
                       THEN filter.message[1].message_name = ext.name
                       ELSE TRUE
    IN src_match /\ dst_match /\ event_match

match_filter(state, filter, src, dst, ext) ==
    LET src_match == match_account_filter(state, filter.sender, src)
        dst_match == match_account_filter(state, filter.receiver, dst)
        event_match == IF filter.message # <<>>
                       THEN /\ filter.message[1].message_name = ext.name
                            /\ filter.message[1].message_type = ext.message_type
                       ELSE TRUE
    IN src_match /\ dst_match /\ event_match

\* filter/mod.rs:103  parser.filters.iter().find(..): the position of the first
\* matching entry, 0 when none matches
find_filter_last(state, filters, ext) ==
    LET hits == {i \in 1..Len(filters) :
                    match_filter(state, filters[i], src_ref(ext.message), dst_ref(ext.message), ext)}
    IN IF hits = {} THEN 0 ELSE CHOOSE i \in hits : \A j \in hits : j <= i

find_filter(state, filters, ext) ==
    LET hits == {i \in 1..Len(filters) :
                    match_filter(state, filters[i], src_ref(ext.message), dst_ref(ext.message), ext)}
    IN IF hits = {} THEN 0 ELSE CHOOSE i \in hits : \A j \in hits : i <= j

\* filter/mod.rs:99-115  the body of the loop over the parsers
filter_parser(parser, t, state) ==
    LET extracted == parse(parser.inner_parser, t)
    IN IF ~extracted.ok THEN <<>>
       ELSE LET kept == SelectSeq(extracted.out,
                            LAMBDA ext : find_filter(state, parser.filters, ext) # 0)
            IN [i \in 1..Len(kept) |->
                    [kept[i] EXCEPT
                        !.contract_name = parser.name,
                        !.filter_name =
                            parser.filters[find_filter(state, parser.filters, kept[i])].name]]

RECURSIVE filter_parsers_dedup(_, _, _)
filter_parsers_dedup(parsers, t, state) ==
    IF parsers = <<>> THEN <<>>
    ELSE LET first == filter_parser(Head(parsers), t, state)
             rest == filter_parsers_dedup(Tail(parsers), t, state)
         IN first \o SelectSeq(rest, LAMBDA m :
                        \A i \in 1..Len(first) : first[i].message_hash # m.message_hash)

RECURSIVE filter_parsers(_, _, _)
filter_parsers(parsers, t, state) ==
    IF parsers = <<>> THEN <<>>
    ELSE filter_parser(Head(parsers), t, state) \o filter_parsers(Tail(parsers), t, state)

\* filter/mod.rs:94-95  NaiveDateTime::from_timestamp_opt(tx.now, 0) .date(),
\* in days since the epoch; every u32 timestamp has a date
date(now) == now \div SecsPerDay

\* parser.rs:12  get_parsers
get_parsers == PARSERS[1]

\* filter/mod.rs:88  filter_transaction
filter_transaction_gate_inclusive(t, state, start) ==
    IF date(t.now) <= start THEN <<>>
    ELSE filter_parsers(get_parsers, t, state)

filter_transaction(t, state, start) ==
    IF date(t.now) < start THEN <<>>
    ELSE filter_parsers(get_parsers, t, state)

(***************************************************************************)
(* Parser registry (filter/parser.rs)                                      *)
(***************************************************************************)
\* parser.rs:16  struct Parser
Parser(n, filters, inner_parser) ==
    [name |-> n, filters |-> filters, inner_parser |-> inner_parser]

\* parser.rs:62  init_all_parsers, one record: Contract builds the ABI parser
\* (get_abi_parser, parser.rs:45), the other two take fixed names
init_parser(record) ==
    CASE record.filter_type = "Contract" ->
            Parser(record.name, record.entries, "Nekoton")
      [] record.filter_type = "NativeTransfer" ->
            Parser("EmptyMessage", record.entries, "EmptyMessage")
      [] record.filter_type = "AnyMessage" ->
            Parser("RawMessage", record.entries, "RawBodyMessageParser")

\* parser.rs:62  init_all_parsers: Result<Vec<Parser>>; the first Contract
\* record whose ABI cannot be loaded ends it with an error
init_all_parsers(config) ==
    IF \E i \in 1..Len(config) :
            config[i].filter_type = "Contract" /\ ~config[i].abi_ok
    THEN [ok |-> FALSE, parsers |-> <<>>]
    ELSE [ok |-> TRUE, parsers |-> [i \in 1..Len(config) |-> init_parser(config[i])]]

(***************************************************************************)
(* Serializer (serializer/mod.rs, types/mod.rs)                            *)
(***************************************************************************)
\* types/mod.rs:57-72  struct SerializeMessage
SerializeMessage(message, message_hash, message_type, block_id, transaction_id, ts, index, cn, fn) ==
    [message |-> message, message_hash |-> message_hash, message_type |-> message_type,
     block_id |-> block_id, transaction_id |-> transaction_id,
     transaction_timestamp |-> ts, index_in_transaction |-> index,
     contract_name |-> cn, filter_name |-> fn]

\* serde_json's rendering of an unsigned integer: its decimal digits in ASCII
RECURSIVE digits(_)
digits(n) == IF n < 10 THEN <<48 + n>> ELSE digits(n \div 10) \o <<48 + (n % 10)>>

\* serializer/mod.rs:22  serde_json::to_vec(&message)?: the JSON text of the
\* message, or an error when a field cannot be rendered. The text here is
\* the object braces around the two integer fields of the message,
\* transaction_timestamp and index_in_transaction, separated by a comma.
to_vec(message, renders) ==
    IF renders
    THEN [ok |-> TRUE,
          bytes |-> <<123>> \o digits(message.transaction_timestamp) \o <<44>>
                        \o digits(message.index_in_transaction) \o <<125>>]
    ELSE [ok |-> FALSE, bytes |-> <<>>]

\* serializer/mod.rs:25  (len as u32).to_be_bytes()
\* The cast keeps the low 32 bits: each byte is taken modulo 256, the top one too
to_le_bytes(len) ==
    <<len % 256, (len \div 256) % 256, (len \div 65536) % 256, (len \div 16777216) % 256>>

to_be_bytes(len) ==
    <<(len \div 16777216) % 256, (len \div 65536) % 256, (len \div 256) % 256, len % 256>>

\* serializer/mod.rs:21-28  write_json_with_prefix
write_json_with_prefix(message, renders) ==
    LET json_vec == to_vec(message, renders)
    IN IF ~json_vec.ok THEN [ok |-> FALSE, bytes |-> <<>>]
       ELSE [ok |-> TRUE, bytes |-> to_be_bytes(Len(json_vec.bytes)) \o json_vec.bytes]

(***************************************************************************)
(* Inputs                                                                  *)
(***************************************************************************)
RECURSIVE SeqsUpTo(_, _)
SeqsUpTo(S, n) ==
    IF n = 0 THEN {<<>>}
    ELSE LET shorter == SeqsUpTo(S, n - 1)
         IN shorter \cup {Append(q, x) : q \in {r \in shorter : Len(r) = n - 1}, x \in S}

\* The filter records a configuration is built from
Records ==
    { FilterRecord("Contract", "TokenWallet", TRUE,
        << FilterEntry("tip3 transfer", Address(2), Address(1),
                <<MessageFilter("transfer", "InternalInbound")>>) >>),
      FilterRecord("Contract", "TokenWallet", TRUE,
        << FilterEntry("wrong type", NoConstraint, NoConstraint,
                <<MessageFilter("transfer", "ExternalOutbound")>>),
           FilterEntry("by code", NoConstraint, CodeHash("h1"),
                <<MessageFilter("transfer", "InternalInbound")>>) >>),
      FilterRecord("NativeTransfer", "", TRUE,
        << FilterEntry("by code", CodeHash("h1"), NoConstraint, <<>>),
           FilterEntry("native transfer", Address(1), NoConstraint, <<>>) >>),
      FilterRecord("AnyMessage", "", TRUE, <<>>),
      FilterRecord("AnyMessage", "", TRUE,
        << FilterEntry("all", NoConstraint, NoConstraint, <<>>) >>),
      FilterRecord("AnyMessage", "", TRUE,
        << FilterEntry("raw out to 2", Address(1), Address(2),
                <<MessageFilter(RawBodyName, "InternalOutbound")>>),
           FilterEntry("from 1", Address(1), NoConstraint, <<>>) >>) }

\* The configurations the registry is initialised from at startup
Configs == SeqsUpTo(Records, MaxRecords)

\* The inbound message of a transaction, when it has one
InMsgs ==
    { Msg("IntMsgInfo", 2, 1, "transfer", TRUE),
      Msg("IntMsgInfo", 1, 2, "", TRUE),
      Msg("ExtInMsgInfo", NoAddr, 1, "transfer", TRUE),
      Msg("IntMsgInfo", NoAddr, NoAddr, "", FALSE) }

\* The outbound messages of a transaction
OutMsgs ==
    { Msg("IntMsgInfo", 1, 2, "", TRUE),
      Msg("IntMsgInfo", 2, 1, "", TRUE),
      Msg("ExtOutMsgInfo", 1, NoAddr, "transfer", TRUE),
      Msg("IntMsgInfo", NoAddr, NoAddr, "", FALSE) }

\* A transaction; every message cell has its own hash: 0 for the inbound
\* message, i for the i-th outbound one
Transaction(now, in_msg, out_msgs) ==
    [now |-> now,
     in_msg |-> [i \in 1..Len(in_msg) |-> [in_msg[i] EXCEPT !.hash = 0]],
     out_msgs |-> [i \in 1..Len(out_msgs) |-> [out_msgs[i] EXCEPT !.hash = i]]]

Nows == {SecsPerDay - 1, SecsPerDay}

StartDates == {0, 1}

Transactions ==
    {Transaction(now, i, o) : now \in Nows, i \in SeqsUpTo(InMsgs, 1), o \in SeqsUpTo(OutMsgs, MaxOut)}

\* Shard states handed to filter_transaction: none (archive replay) or one
\* in which account 1 has code h1 and account 2 does not exist
FilterShardStates ==
    {<<>>, <<ShardState(TRUE, [a \in Addrs |-> IF a = 1 THEN "h1" ELSE "absent"])>>}

AllShardStates ==
    {<<>>} \cup {<<ShardState(ok, acc)>> : ok \in BOOLEAN, acc \in [Addrs -> AccountStatus]}

Constraints ==
    {NoConstraint} \cup {Address(a) : a \in Addrs} \cup {CodeHash(h) : h \in Hashes}

\* The messages handed to the serializer on its own: the all-zero message of
\* the JSON framing scenario and messages whose integers have more digits
SerializeMessages ==
    { SerializeMessage(Msg("IntMsgInfo", 1, 2, "", TRUE), 0, "InternalInbound", 0, 0,
                       ts, index, "", "")
        : ts \in {0, SecsPerDay}, index \in {0, 10, 65535} }

NoTx == [now |-> 0, in_msg |-> <<>>, out_msgs |-> <<>>]

Callers == 1..NumCallers

FilterIdle ==
    /\ pc = "idle"
    /\ tx = NoTx
    /\ shard_state = <<>>
    /\ start_date = 0
    /\ filtered = <<>>

RegistryIdle ==
    /\ init_pc = [p \in Callers |-> "idle"]
    /\ init_built = [p \in Callers |-> <<>>]
    /\ init_after = [p \in Callers |-> FALSE]
    /\ init_log = <<>>
    /\ observed = {}
    /\ panicked = FALSE
    /\ first_stored = <<>>

HttpIdle ==
    /\ tail = 0
    /\ make_receiver = 0
    /\ conns = <<>>
    /\ streams = <<>>
    /\ last_response = ""
    /\ server = "running"

\* No send has been made yet
NoSend == [fn |-> "", data |-> <<>>, result |-> "", before |-> 0]

\* A send task that is not inside send_data_sync
NoWrite == [pc |-> "idle", data |-> <<>>, output |-> <<>>, written |-> 0, at |-> 0]

ProducerIdle ==
    /\ last_send = NoSend
    /\ transport = "Http2"
    /\ stdout = <<>>
    /\ writes = 0
    /\ writers = [w \in 1..NumWriters |-> NoWrite]
    /\ stdout_lock = 0

\* No handle_block call in progress
NoBlockCall == [pc |-> "idle", calls |-> 0, block |-> <<>>, ab |-> 0, txi |-> 0, result |-> ""]

\* No scanner is running
NoScanner == [pc |-> "off", retry_on_error |-> FALSE, archive |-> <<>>, block |-> 0,
              result |-> "", log |-> <<>>]

BlockIdle ==
    /\ hb = NoBlockCall
    /\ tx_log = <<>>
    /\ tasks = <<>>
    /\ egress = <<>>
    /\ scanner = NoScanner

NoCall == [fn |-> "", state |-> <<>>, filter |-> NoConstraint, value |-> NoAddr,
           header |-> "", is_in_message |-> FALSE, matched |-> FALSE, message_type |-> "",
           message |-> <<>>, renders |-> FALSE, buffer |-> <<>>]

(***************************************************************************)
(* Spec: filter_transaction over the registry built at startup             *)
(***************************************************************************)
\* main.rs:65  init_parsers(config.filter_config)? before any block is handled
Init ==
    /\ PARSERS \in {<<init_all_parsers(c).parsers>> : c \in {k \in Configs : init_all_parsers(k).ok}}
    /\ FilterIdle
    /\ pure_call = NoCall
    /\ RegistryIdle
    /\ HttpIdle
    /\ ProducerIdle
    /\ BlockIdle

\* blocks_handler/mod.rs:97 and the tests of filter/mod.rs: a call of filter_transaction
CallFilterTransaction ==
    /\ pc = "idle"
    /\ \E t \in Transactions, st \in FilterShardStates, d \in StartDates :
        /\ tx' = t
        /\ shard_state' = st
        /\ start_date' = d
        /\ filtered' = filter_transaction(t, st, d)
    /\ pc' = "returned"
    /\ UNCHANGED <<PARSERS, pureVars, registryVars, httpVars, producerVars, blockVars>>

\* The caller consumes the result
Return ==
    /\ pc = "returned"
    /\ pc' = "idle"
    /\ tx' = NoTx
    /\ shard_state' = <<>>
    /\ start_date' = 0
    /\ filtered' = <<>>
    /\ UNCHANGED <<PARSERS, pureVars, registryVars, httpVars, producerVars, blockVars>>

Next == CallFilterTransaction \/ Return

Spec == Init /\ [][Next]_vars

(***************************************************************************)
(* SpecPure: the pure helpers on drawn inputs                              *)
(***************************************************************************)
InitPure ==
    /\ PARSERS = <<>>
    /\ FilterIdle
    /\ pure_call = NoCall
    /\ RegistryIdle
    /\ HttpIdle
    /\ ProducerIdle
    /\ BlockIdle

CallMatchAccountFilter ==
    /\ pure_call.fn = ""
    /\ \E st \in AllShardStates, f \in Constraints, v \in {NoAddr} \cup Addrs :
        pure_call' = [NoCall EXCEPT !.fn = "match_account_filter",
                        !.state = st, !.filter = f, !.value = v,
                        !.matched = match_account_filter(st, f, v)]
    /\ UNCHANGED <<PARSERS, filterVars, registryVars, httpVars, producerVars, blockVars>>

CallMessageTypeFrom ==
    /\ pure_call.fn = ""
    /\ \E h \in HeaderKinds, d \in BOOLEAN :
        pure_call' = [NoCall EXCEPT !.fn = "message_type_from",
                        !.header = h, !.is_in_message = d,
                        !.message_type = message_type_from(h, d)]
    /\ UNCHANGED <<PARSERS, filterVars, registryVars, httpVars, producerVars, blockVars>>

ReturnPure ==
    /\ pure_call.fn # ""
    /\ pure_call' = NoCall
    /\ UNCHANGED <<PARSERS, filterVars, registryVars, httpVars, producerVars, blockVars>>

\* serializer/mod.rs:36  Serializer::Json: write_json_with_prefix(message)
CallWriteJsonWithPrefix ==
    /\ pure_call.fn = ""
    /\ \E m \in SerializeMessages, renders \in BOOLEAN :
        pure_call' = [NoCall EXCEPT !.fn = "write_json_with_prefix",
                        !.message = m, !.renders = renders,
                        !.buffer = write_json_with_prefix(m, renders)]
    /\ UNCHANGED <<PARSERS, filterVars, registryVars, httpVars, producerVars, blockVars>>

NextPure ==
    \/ CallMatchAccountFilter
    \/ CallMessageTypeFrom
    \/ CallWriteJsonWithPrefix
    \/ ReturnPure

SpecPure == InitPure /\ [][NextPure]_vars

(***************************************************************************)
(* Properties of the filter engine, checked under Spec                     *)
(***************************************************************************)
\* The account table of the specification: no constraint passes, a constraint
\* without an address value fails, an address constraint is equality, a code
\* hash constraint needs a shard state holding the account with that code hash
AccountTable(state, constraint, value) ==
    IF constraint.kind = "None" THEN TRUE
    ELSE IF value = NoAddr THEN FALSE
    ELSE IF constraint.kind = "Address" THEN constraint.addr = value
    ELSE /\ state # <<>>
         /\ state[1].accounts_ok
         /\ state[1].account[value] \in Hashes
         /\ state[1].account[value] = constraint.hash

\* An entry satisfies sender AND receiver AND message for a candidate
EntryMatches(state, entry, c) ==
    /\ AccountTable(state, entry.sender, src_ref(c.message))
    /\ AccountTable(state, entry.receiver, dst_ref(c.message))
    /\ \/ entry.message = <<>>
       \/ /\ entry.message[1].message_name = c.name
          /\ entry.message[1].message_type = c.message_type

MatchingEntries(state, parser, c) ==
    {i \in 1..Len(parser.filters) : EntryMatches(state, parser.filters[i], c)}

Earliest(S) == CHOOSE i \in S : \A j \in S : i <= j

Candidates(parser) == parse(parser.inner_parser, tx).out

\* The candidates of a parser that some entry of the parser matches
MatchedCandidates(parser) ==
    SelectSeq(Candidates(parser), LAMBDA c : MatchingEntries(shard_state, parser, c) # {})

\* A matched candidate attributed to the parser and to its earliest matching entry
Attributed(parser, c) ==
    [c EXCEPT !.contract_name = parser.name,
              !.filter_name =
                  parser.filters[Earliest(MatchingEntries(shard_state, parser, c))].name]

RECURSIVE ExpectedOutput(_)
ExpectedOutput(parsers) ==
    IF parsers = <<>> THEN <<>>
    ELSE LET m == MatchedCandidates(Head(parsers))
         IN [i \in 1..Len(m) |-> Attributed(Head(parsers), m[i])] \o ExpectedOutput(Tail(parsers))

RECURSIVE ExpectedHashes(_)
ExpectedHashes(parsers) ==
    IF parsers = <<>> THEN <<>>
    ELSE LET m == MatchedCandidates(Head(parsers))
         IN [i \in 1..Len(m) |-> <<m[i].name, m[i].message_hash>>] \o ExpectedHashes(Tail(parsers))

DatePasses == start_date <= tx.now \div SecsPerDay

\* C1: when the start date is later than the date of tx.now, filter_transaction
\* returns the empty sequence whatever is registered; when the date of tx.now
\* is the start date or later, the gate suppresses nothing: the result is what
\* the parsers and their entries yield.
C1_DateGate ==
    pc = "returned" =>
        /\ (start_date > tx.now \div SecsPerDay => filtered = <<>>)
        /\ (start_date <= tx.now \div SecsPerDay =>
                filtered = filter_parsers(PARSERS[1], tx, shard_state))

\* C1 witness: a transaction one second before the start date, whose messages
\* would be emitted without the gate, returns nothing.
C1_Witness ==
    /\ pc = "returned"
    /\ tx.now = SecsPerDay - 1
    /\ start_date = 1
    /\ filter_parsers(PARSERS[1], tx, shard_state) # <<>>
    /\ filtered = <<>>

\* C2: a candidate of a parser is emitted iff at least one entry of that parser
\* satisfies sender AND receiver AND message (name and MessageType both equal;
\* an absent constraint passes); with no entries anywhere the output is empty.
C2_EmittedIffEntryMatches ==
    (pc = "returned" /\ DatePasses) =>
        /\ [i \in 1..Len(filtered) |-> <<filtered[i].name, filtered[i].message_hash>>]
                = ExpectedHashes(PARSERS[1])
        /\ ((\A k \in 1..Len(PARSERS[1]) : PARSERS[1][k].filters = <<>>) => filtered = <<>>)

\* C2 witness: a parser whose entry passes sender and receiver but names another
\* MessageType drops a candidate, while another candidate of the call is emitted.
C2_Witness ==
    /\ pc = "returned" /\ DatePasses
    /\ filtered # <<>>
    /\ \E k \in 1..Len(PARSERS[1]) :
        \E j \in 1..Len(Candidates(PARSERS[1][k])) :
            LET p == PARSERS[1][k]
                c == Candidates(p)[j]
            IN /\ MatchingEntries(shard_state, p, c) = {}
               /\ \E i \in 1..Len(p.filters) :
                    /\ AccountTable(shard_state, p.filters[i].sender, src_ref(c.message))
                    /\ AccountTable(shard_state, p.filters[i].receiver, dst_ref(c.message))
                    /\ p.filters[i].message # <<>>
                    /\ p.filters[i].message[1].message_name = c.name
                    /\ p.filters[i].message[1].message_type # c.message_type

\* C3: every matched candidate of a parser is emitted exactly once for that
\* parser, with filter_name the name of the earliest matching entry in the
\* declared order, contract_name the parser's name, and the other fields unchanged.
C3_EarliestEntryWins ==
    (pc = "returned" /\ DatePasses) => filtered = ExpectedOutput(PARSERS[1])

\* C3 witness: a candidate matched by two entries of one parser is emitted under
\* the name of the first.
C3_Witness ==
    /\ pc = "returned" /\ DatePasses
    /\ \E k \in 1..Len(PARSERS[1]) :
        \E j \in 1..Len(Candidates(PARSERS[1][k])) :
            LET p == PARSERS[1][k]
                c == Candidates(p)[j]
            IN /\ Cardinality(MatchingEntries(shard_state, p, c)) = 2
               /\ \E i \in 1..Len(filtered) :
                    /\ filtered[i].message_hash = c.message_hash
                    /\ filtered[i].contract_name = p.name
                    /\ filtered[i].filter_name = p.filters[1].name

\* C5: every message emitted for a NativeTransfer record is one of the
\* transaction's outbound messages and has an empty body; it is never the
\* inbound message nor an outbound message with a body.
C5_NativeTransferOutboundEmpty ==
    pc = "returned" =>
        \A i \in 1..Len(filtered) :
            filtered[i].contract_name = "EmptyMessage" =>
                /\ filtered[i].message.body = ""
                /\ \E j \in 1..Len(tx.out_msgs) :
                    /\ tx.out_msgs[j] = filtered[i].message
                    /\ tx.out_msgs[j].hash = filtered[i].message_hash
                /\ \A j \in 1..Len(tx.in_msg) : tx.in_msg[j].hash # filtered[i].message_hash

\* C5 witness: a transaction with an inbound message, an outbound message with a
\* body and an outbound message without one, for which NativeTransfer emits.
C5_Witness ==
    /\ pc = "returned"
    /\ tx.in_msg # <<>>
    /\ \E j \in 1..Len(tx.out_msgs) : tx.out_msgs[j].body # ""
    /\ \E i \in 1..Len(filtered) : filtered[i].contract_name = "EmptyMessage"

RawParsers == {k \in 1..Len(PARSERS[1]) : PARSERS[1][k].inner_parser = "RawBodyMessageParser"}

RawOutputCount == Cardinality({i \in 1..Len(filtered) : filtered[i].contract_name = "RawMessage"})

Unconstrained(entry) ==
    entry.sender.kind = "None" /\ entry.receiver.kind = "None" /\ entry.message = <<>>

\* C6 as stated: with one AnyMessage record, a passing date and every message
\* decodable, the number of messages output for the record is
\* (1 if inbound present else 0) + |outbound|.
C6_Original ==
    (pc = "returned" /\ DatePasses /\ AllDecode(tx) /\ Cardinality(RawParsers) = 1) =>
        RawOutputCount = Len(tx.in_msg) + Len(tx.out_msgs)

\* C6 amended: for an AnyMessage record the Raw parser yields
\* (1 if inbound present else 0) + |outbound| candidates when every message
\* decodes, and the number of messages output for the record is the number of
\* those candidates that match at least one entry of the record: never more
\* than that total, equal to it when an entry of the record has no constraint,
\* and 0 when the record has no entries, a message fails to decode or the date
\* gate suppresses the transaction.
C6_AnyMessageCount ==
    (pc = "returned" /\ Cardinality(RawParsers) = 1) =>
        LET p == PARSERS[1][CHOOSE k \in RawParsers : TRUE]
            total == Len(tx.in_msg) + Len(tx.out_msgs)
        IN /\ RawOutputCount <= total
           /\ (DatePasses /\ AllDecode(tx)) =>
                /\ Len(Candidates(p)) = total
                /\ RawOutputCount = Len(MatchedCandidates(p))
           /\ (DatePasses /\ AllDecode(tx) /\ \E i \in 1..Len(p.filters) : Unconstrained(p.filters[i]))
                => RawOutputCount = total
           /\ (~DatePasses \/ ~AllDecode(tx) \/ p.filters = <<>>) => RawOutputCount = 0

\* C6 witness: an AnyMessage record with an unconstrained entry outputs the
\* inbound message and both outbound messages of a transaction.
C6_Witness ==
    /\ pc = "returned" /\ DatePasses /\ AllDecode(tx)
    /\ Cardinality(RawParsers) = 1
    /\ tx.in_msg # <<>> /\ Len(tx.out_msgs) = 2
    /\ RawOutputCount = 3

\* The matched candidates of each parser of the registry, in registry order
Segments == [k \in 1..Len(PARSERS[1]) |-> MatchedCandidates(PARSERS[1][k])]

\* The number of messages the first k segments hold
RECURSIVE Offset(_, _)
Offset(segments, k) == IF k = 0 THEN 0 ELSE Offset(segments, k - 1) + Len(segments[k])

\* The parsers under which the message with the given hash is matched
MatchedUnder(segments, hash) ==
    {k \in 1..Len(segments) :
        \E j \in 1..Len(segments[k]) : segments[k][j].message_hash = hash}

\* C22: init_all_parsers keeps the order of the configured records; the
\* output of filter_transaction is, parser after parser in registry order,
\* the matched candidates of the parser in its candidate order; a message
\* matched under k parsers appears k times, each time with the name of its
\* parser and of an entry of that parser.
C22_RegistryOrderConcatenation ==
    /\ pc = "idle" =>
        \A c \in Configs :
            LET built == init_all_parsers(c)
            IN built.ok =>
                /\ Len(built.parsers) = Len(c)
                /\ \A i \in 1..Len(c) :
                    /\ built.parsers[i].filters = c[i].entries
                    /\ built.parsers[i].inner_parser =
                            (CASE c[i].filter_type = "Contract" -> "Nekoton"
                               [] c[i].filter_type = "NativeTransfer" -> "EmptyMessage"
                               [] c[i].filter_type = "AnyMessage" -> "RawBodyMessageParser")
    /\ (pc = "returned" /\ DatePasses) =>
        \A segments \in {Segments} :
            /\ Len(filtered) = Offset(segments, Len(segments))
            /\ \A k \in 1..Len(segments) :
                \A j \in 1..Len(segments[k]) :
                    LET f == filtered[Offset(segments, k - 1) + j]
                        p == PARSERS[1][k]
                    IN /\ f.message_hash = segments[k][j].message_hash
                       /\ f.name = segments[k][j].name
                       /\ f.contract_name = p.name
                       /\ \E e \in 1..Len(p.filters) : f.filter_name = p.filters[e].name
            /\ \A h \in 0..Len(tx.out_msgs) :
                Cardinality({i \in 1..Len(filtered) : filtered[i].message_hash = h})
                    = Cardinality(MatchedUnder(segments, h))

\* C22 witness: an outbound message matched under the two parsers of the
\* registry is emitted twice, first under the first parser, then under the
\* second, with different contract names.
C22_Witness ==
    /\ pc = "returned" /\ DatePasses
    /\ Len(PARSERS[1]) = 2
    /\ PARSERS[1][1].inner_parser = "RawBodyMessageParser"
    /\ PARSERS[1][2].inner_parser = "EmptyMessage"
    /\ \E i, j \in 1..Len(filtered) :
        /\ i < j
        /\ filtered[i].message_hash = filtered[j].message_hash
        /\ filtered[i].message_hash # 0
        /\ filtered[i].contract_name = "RawMessage"
        /\ filtered[j].contract_name = "EmptyMessage"
        /\ filtered[i].filter_name # filtered[j].filter_name

\* C23: the index_in_transaction of every emitted outbound message is its
\* 0-based position among all the outbound messages of the transaction, for
\* a NativeTransfer record too, where the outbound messages with a body are
\* skipped but counted; the Raw parser's outbound candidates carry the
\* positions 0, 1, .. in order, without a gap; the inbound message carries 0.
C23_IndexInTransaction ==
    pc = "returned" =>
        /\ \A i \in 1..Len(filtered) :
            IF \E j \in 1..Len(tx.in_msg) : tx.in_msg[j].hash = filtered[i].message_hash
            THEN filtered[i].index_in_transaction = 0
            ELSE /\ filtered[i].index_in_transaction + 1 \in 1..Len(tx.out_msgs)
                 /\ tx.out_msgs[filtered[i].index_in_transaction + 1].hash
                        = filtered[i].message_hash
                 /\ tx.out_msgs[filtered[i].index_in_transaction + 1] = filtered[i].message
        /\ LET raw == parse_raw_messages(tx)
               n == Len(tx.in_msg)
           IN raw.ok =>
                /\ Len(raw.out) = n + Len(tx.out_msgs)
                /\ \A j \in 1..n : raw.out[j].index_in_transaction = 0
                /\ \A j \in 1..Len(tx.out_msgs) :
                        raw.out[n + j].index_in_transaction = j - 1

\* C23 witness: a NativeTransfer record emits the second outbound message of
\* a transaction whose first outbound message has a body, with index 1.
C23_Witness ==
    /\ pc = "returned"
    /\ Len(tx.out_msgs) = 2
    /\ tx.out_msgs[1].body # ""
    /\ tx.out_msgs[2].body = ""
    /\ \E i \in 1..Len(filtered) :
        /\ filtered[i].contract_name = "EmptyMessage"
        /\ filtered[i].message_hash = 2
        /\ filtered[i].index_in_transaction = 1

\* A parser's parse of the transaction returns an error: a message it has
\* to read does not decode. The NativeTransfer parser reads the outbound
\* messages only.
ParserFails(parser, t) ==
    IF parser.inner_parser = "EmptyMessage"
    THEN \E i \in 1..Len(t.out_msgs) : ~t.out_msgs[i].ok
    ELSE \/ \E i \in 1..Len(t.in_msg) : ~t.in_msg[i].ok
         \/ \E i \in 1..Len(t.out_msgs) : ~t.out_msgs[i].ok

\* C28: a parser whose parse of the transaction fails contributes no message
\* at all, not even for the messages that decoded before the failing one;
\* the output is what the registry without the failing parsers yields, so
\* the messages of the other parsers are unchanged, and filter_transaction
\* returns its list whatever fails.
C28_ParserFailureIsolated ==
    (pc = "returned" /\ DatePasses) =>
        /\ filtered = ExpectedOutput(SelectSeq(PARSERS[1], LAMBDA p : ~ParserFails(p, tx)))
        /\ (\A k \in 1..Len(PARSERS[1]) : ParserFails(PARSERS[1][k], tx)) => filtered = <<>>

\* C28 witness: the inbound message does not decode, so the AnyMessage parser
\* fails, while the NativeTransfer parser registered after it reads the
\* outbound messages and its message is emitted.
C28_Witness ==
    /\ pc = "returned" /\ DatePasses
    /\ Len(PARSERS[1]) = 2
    /\ PARSERS[1][1].inner_parser = "RawBodyMessageParser"
    /\ PARSERS[1][1].filters # <<>>
    /\ ParserFails(PARSERS[1][1], tx)
    /\ ~ParserFails(PARSERS[1][2], tx)
    /\ Len(tx.out_msgs) > 0
    /\ filtered # <<>>
    /\ \A i \in 1..Len(filtered) : filtered[i].contract_name = "EmptyMessage"

(***************************************************************************)
(* SpecAnyConfig: filter_transaction over a registry built from any        *)
(* configuration the loader accepts                                        *)
(***************************************************************************)
\* config.rs:12-16 and :86-88  the name of a Contract record and the name of
\* a FilterEntry are plain Strings: serde accepts the empty string, and
\* init_all_parsers (parser.rs:62-89) does not look at the names
LoadableRecords ==
    { FilterRecord("AnyMessage", "", TRUE,
        << FilterEntry("", NoConstraint, NoConstraint, <<>>) >>),
      FilterRecord("Contract", "", TRUE,
        << FilterEntry("tip3 transfer", NoConstraint, NoConstraint,
                <<MessageFilter("transfer", "InternalInbound")>>) >>),
      FilterRecord("NativeTransfer", "", TRUE,
        << FilterEntry("native transfer", Address(1), NoConstraint, <<>>) >>) }

LoadableConfigs == SeqsUpTo(LoadableRecords, MaxRecords)

\* main.rs:62-65  read_config, then init_parsers(config.filter_config)?
InitAnyConfig ==
    /\ PARSERS \in {<<init_all_parsers(c).parsers>> :
                        c \in {k \in LoadableConfigs : init_all_parsers(k).ok}}
    /\ FilterIdle
    /\ pure_call = NoCall
    /\ RegistryIdle
    /\ HttpIdle
    /\ ProducerIdle
    /\ BlockIdle

NextAnyConfig == CallFilterTransaction \/ Return

SpecAnyConfig == InitAnyConfig /\ [][NextAnyConfig]_vars

\* C24: contract_name and filter_name are empty exactly on the messages not
\* yet attributed to an entry: on every candidate returned by a parser both
\* are empty, and on every message returned by filter_transaction both are
\* non-empty, whatever configuration was loaded.
C24_NamesEmptyIffUnattributed ==
    pc = "returned" =>
        /\ \A k \in 1..Len(PARSERS[1]) :
            \A j \in 1..Len(Candidates(PARSERS[1][k])) :
                /\ Candidates(PARSERS[1][k])[j].contract_name = ""
                /\ Candidates(PARSERS[1][k])[j].filter_name = ""
        /\ \A i \in 1..Len(filtered) :
            /\ filtered[i].contract_name # ""
            /\ filtered[i].filter_name # ""

(***************************************************************************)
(* Properties of the pure helpers, checked under SpecPure                  *)
(***************************************************************************)
\* C4: match_account_filter is total and follows the table: no constraint ->
\* true; constraint without address value -> false; Address(a) -> a = v;
\* CodeHash(h) -> true only with a shard state in which the account at v exists
\* and has code hash h; a missing state, a missing account, an account without
\* code or any lookup or decoding error gives false.
C4_MatchAccountTable ==
    pure_call.fn = "match_account_filter" =>
        /\ pure_call.matched \in BOOLEAN
        /\ pure_call.matched = AccountTable(pure_call.state, pure_call.filter, pure_call.value)
        /\ (/\ pure_call.filter.kind = "CodeHash"
            /\ \/ pure_call.state = <<>>
               \/ pure_call.value = NoAddr
               \/ ~pure_call.state[1].accounts_ok
               \/ pure_call.state[1].account[pure_call.value]
                        \in {"lookup_err", "absent", "read_err", "nocode"})
                => pure_call.matched = FALSE

\* C4 witness: a code hash constraint against an account without code, and the
\* call has returned false.
C4_Witness ==
    /\ pure_call.fn = "match_account_filter"
    /\ pure_call.filter.kind = "CodeHash"
    /\ pure_call.state # <<>>
    /\ pure_call.value # NoAddr
    /\ pure_call.state[1].accounts_ok
    /\ pure_call.state[1].account[pure_call.value] = "nocode"
    /\ pure_call.matched = FALSE

\* C7: message_type_from maps IntMsgInfo to InternalInbound for the inbound
\* message and InternalOutbound otherwise, ExtInMsgInfo to ExternalInbound and
\* ExtOutMsgInfo to ExternalOutbound whatever the direction: one MessageType
\* for each of the six combinations.
C7_MessageTypeTable ==
    pure_call.fn = "message_type_from" =>
        /\ pure_call.message_type \in MessageTypes
        /\ (pure_call.header = "IntMsgInfo" /\ pure_call.is_in_message)
                => pure_call.message_type = "InternalInbound"
        /\ (pure_call.header = "IntMsgInfo" /\ ~pure_call.is_in_message)
                => pure_call.message_type = "InternalOutbound"
        /\ pure_call.header = "ExtInMsgInfo" => pure_call.message_type = "ExternalInbound"
        /\ pure_call.header = "ExtOutMsgInfo" => pure_call.message_type = "ExternalOutbound"

\* C7 witness: an ExtInMsgInfo header in an outbound position is ExternalInbound.
C7_Witness ==
    /\ pure_call.fn = "message_type_from"
    /\ pure_call.header = "ExtInMsgInfo"
    /\ ~pure_call.is_in_message
    /\ pure_call.message_type = "ExternalInbound"

(***************************************************************************)
(* SpecRegistry: concurrent init_parsers and get_parsers on PARSERS        *)
(***************************************************************************)
\* The configurations init_parsers is called with; the ABI file of the
\* "Broken" contract cannot be read
RegistryConfigs ==
    { << FilterRecord("AnyMessage", "", TRUE,
            << FilterEntry("all", NoConstraint, NoConstraint, <<>>) >>) >>,
      << FilterRecord("NativeTransfer", "", TRUE,
            << FilterEntry("native transfer", Address(1), NoConstraint, <<>>) >>) >>,
      << FilterRecord("Contract", "Broken", FALSE, <<>>) >>,
      << FilterRecord("NativeTransfer", "", TRUE, <<>>),
         FilterRecord("Contract", "Broken", FALSE, <<>>) >> }

\* parser.rs:39  PARSERS.set(v): stores only into an unset cell
once_lock_set_overwrite(cell, v) == [cell |-> <<v>>, ok |-> TRUE]

once_lock_set(cell, v) ==
    IF cell = <<>> THEN [cell |-> <<v>>, ok |-> TRUE]
    ELSE [cell |-> cell, ok |-> FALSE]

InitCallsBegun ==
    Len(init_log) + Cardinality({p \in Callers : init_pc[p] = "built"})

LogEntry(p, after, build_failed, result, before, now) ==
    [caller |-> p, after_init |-> after, build_failed |-> build_failed,
     result |-> result, before |-> before, after |-> now]

InitRegistry ==
    /\ PARSERS = <<>>
    /\ FilterIdle
    /\ pure_call = NoCall
    /\ RegistryIdle
    /\ HttpIdle
    /\ ProducerIdle
    /\ BlockIdle

\* parser.rs:36-37  init_parsers, first half: let v = init_all_parsers(config)?
InitParsersBuild(p) ==
    /\ init_pc[p] = "idle"
    /\ InitCallsBegun < MaxInitCalls
    /\ \E config \in RegistryConfigs :
        LET v == init_all_parsers(config)
        IN IF v.ok
           THEN /\ init_pc' = [init_pc EXCEPT ![p] = "built"]
                /\ init_built' = [init_built EXCEPT ![p] = v.parsers]
                /\ init_after' = [init_after EXCEPT ![p] = (PARSERS # <<>>)]
                /\ UNCHANGED init_log
           ELSE /\ init_log' = Append(init_log,
                        LogEntry(p, PARSERS # <<>>, TRUE, "err", PARSERS, PARSERS))
                /\ UNCHANGED <<init_pc, init_built, init_after>>
    /\ UNCHANGED <<PARSERS, observed, panicked, first_stored, filterVars, pureVars, httpVars, producerVars, blockVars>>

\* parser.rs:39-41  init_parsers, second half: PARSERS.set(v).map_err(..)
InitParsersSet(p) ==
    /\ init_pc[p] = "built"
    /\ LET r == once_lock_set(PARSERS, init_built[p])
       IN /\ PARSERS' = r.cell
          /\ init_log' = Append(init_log,
                LogEntry(p, init_after[p], FALSE, IF r.ok THEN "ok" ELSE "err", PARSERS, r.cell))
          /\ first_stored' = IF first_stored = <<>> /\ r.ok THEN r.cell ELSE first_stored
    /\ init_pc' = [init_pc EXCEPT ![p] = "idle"]
    /\ init_built' = [init_built EXCEPT ![p] = <<>>]
    /\ init_after' = [init_after EXCEPT ![p] = FALSE]
    /\ UNCHANGED <<observed, panicked, filterVars, pureVars, httpVars, producerVars, blockVars>>

\* parser.rs:12-14  get_parsers: PARSERS.get().unwrap()
GetParsers ==
    /\ IF PARSERS = <<>>
       THEN panicked' = TRUE /\ UNCHANGED observed
       ELSE observed' = observed \cup {get_parsers} /\ UNCHANGED panicked
    /\ UNCHANGED <<PARSERS, init_pc, init_built, init_after, init_log, first_stored,
                   filterVars, pureVars, httpVars, producerVars, blockVars>>

NextRegistry ==
    \/ \E p \in Callers : InitParsersBuild(p)
    \/ \E p \in Callers : InitParsersSet(p)
    \/ GetParsers

SpecRegistry == InitRegistry /\ [][NextRegistry]_vars

\* C8: the registry is single-assignment: at most one init_parsers call stores
\* a value and returns ok; a call begun after a successful init returns an
\* error and leaves the stored parsers unchanged; an init that fails while
\* building a parser stores nothing; once set, PARSERS keeps the first stored
\* value and every read observes that same value.
C8_SingleAssignment ==
    /\ Cardinality({i \in 1..Len(init_log) : init_log[i].result = "ok"}) <= 1
    /\ Cardinality({i \in 1..Len(init_log) : init_log[i].after # init_log[i].before}) <= 1
    /\ \A i \in 1..Len(init_log) :
        /\ init_log[i].after_init =>
                init_log[i].result = "err" /\ init_log[i].after = init_log[i].before
        /\ init_log[i].build_failed =>
                init_log[i].result = "err" /\ init_log[i].after = init_log[i].before
        /\ init_log[i].result = "ok" =>
                init_log[i].before = <<>> /\ init_log[i].after # <<>>
        /\ init_log[i].before # <<>> => init_log[i].after = init_log[i].before
    /\ PARSERS # <<>> => PARSERS = first_stored
    /\ \A v \in observed : PARSERS = <<v>>

\* C8 witness: after a successful init, a second call with another
\* configuration has returned an error and a read has observed the first value.
C8_Witness ==
    /\ Len(init_log) >= 2
    /\ init_log[1].result = "ok"
    /\ init_log[2].after_init /\ ~init_log[2].build_failed /\ init_log[2].result = "err"
    /\ observed = {first_stored[1]}
    /\ \E i \in 1..Len(init_log) : init_log[i].build_failed

(***************************************************************************)
(* SpecHttp: the HTTP/2 broadcaster (producer/mod.rs, producer/http2.rs)   *)
(*                                                                         *)
(* The broadcast channel accepts frames 1, 2, ..; tail is the number       *)
(* accepted so far. A receiver is its position: the number of accepted     *)
(* frames it has passed. The ring retains the last RingSize frames.        *)
(***************************************************************************)
RECURSIVE next_power_of_two_from(_, _)
next_power_of_two_from(k, n) == IF k >= n THEN k ELSE next_power_of_two_from(2 * k, n)

\* producer/mod.rs:42  channel(capacity): tokio rounds the capacity up to a
\* power of two
RingSize == next_power_of_two_from(1, Capacity)

\* http2.rs:54 and :81  Receiver::resubscribe: a new receiver at the current tail
resubscribe == tail

\* http2.rs:56  BroadcastStream over a receiver, one poll: the next retained
\* frame, Lagged when the receiver's next frame has left the ring (the
\* receiver then moves to the oldest retained frame), or nothing yet
recv(receiver) ==
    IF receiver = tail THEN [kind |-> "Empty", frame |-> 0, receiver |-> receiver]
    ELSE IF tail - receiver > RingSize
         THEN [kind |-> "Lagged", frame |-> 0, receiver |-> tail - RingSize]
         ELSE [kind |-> "Ok", frame |-> receiver + 1, receiver |-> receiver + 1]

\* http2.rs:56-58  a /messages/data response: Body::wrap_stream(BroadcastStream)
\* start: the receiver's position when the response was built; accepted_at:
\* the number of frames the channel had accepted by then
Stream(receiver) ==
    [receiver |-> receiver, start |-> receiver, accepted_at |-> tail,
     received |-> <<>>, status |-> "open", lagged |-> FALSE]

Paths == {"/", "/messages/data", "/other"}

\* producer/mod.rs:38-48  Producer::new(Transport::Http2): channel(capacity),
\* the first receiver goes to MakeProducerService
InitHttp ==
    /\ PARSERS = <<>>
    /\ FilterIdle
    /\ pure_call = NoCall
    /\ RegistryIdle
    /\ HttpIdle
    /\ ProducerIdle
    /\ BlockIdle

\* The live receivers of the channel: the one held by MakeProducerService
\* while the server task runs, one per connection (ProducerService), one per
\* response body still streaming. hyper runs each accepted connection in its
\* own task, so connections outlive the end of the server task.
receiver_count ==
    (IF server = "running" THEN 1 ELSE 0) + Len(conns)
        + Cardinality({i \in 1..Len(streams) : streams[i].status = "open"})

\* producer/mod.rs:58  tx.send(data): tokio's broadcast Sender::send returns
\* Err(SendError) without storing the value when no receiver is alive, and
\* otherwise stores it in the ring (overwriting the oldest slot) and returns
\* the receiver count
broadcast_send(rx_cnt) ==
    IF rx_cnt = 0 THEN [ok |-> FALSE, tail |-> tail]
    ELSE [ok |-> TRUE, tail |-> tail + 1]

\* producer/mod.rs:56-60  Producer::send_data, Http2 arm:
\* tx.send(data).map(|_count| ()).map_err(Into::into). The body holds no
\* await: the call completes in the step that pushes into the ring. The ring
\* identifies a frame by its number, so the bytes are not kept here.
SendData_waits_for_receivers ==
    /\ transport = "Http2"
    /\ tail < MaxFrames
    /\ \A i \in 1..Len(streams) :
            streams[i].status = "open" => tail - streams[i].receiver < RingSize
    /\ LET r == broadcast_send(receiver_count)
       IN /\ tail' = r.tail
          /\ last_send' = [fn |-> "send_data", data |-> <<>>,
                           result |-> IF r.ok THEN "ok" ELSE "err", before |-> 0]
    /\ UNCHANGED <<make_receiver, conns, streams, last_response, server, transport, writers, stdout_lock,
                   stdout, writes, PARSERS, filterVars, pureVars, registryVars, blockVars>>

SendData ==
    /\ transport = "Http2"
    /\ tail < MaxFrames
    /\ LET r == broadcast_send(receiver_count)
       IN /\ tail' = r.tail
          /\ last_send' = [fn |-> "send_data", data |-> <<>>,
                           result |-> IF r.ok THEN "ok" ELSE "err", before |-> 0]
    /\ UNCHANGED <<make_receiver, conns, streams, last_response, server, transport, writers, stdout_lock,
                   stdout, writes, PARSERS, filterVars, pureVars, registryVars, blockVars>>

\* http2.rs:80-89  MakeProducerService::call: the connection's service takes
\* the receiver held so far, the factory keeps a resubscribed one
MakeProducerServiceCall ==
    /\ server = "running"
    /\ Len(conns) < MaxConns
    /\ conns' = Append(conns, make_receiver)
    /\ make_receiver' = resubscribe
    /\ UNCHANGED <<tail, streams, last_response, server,
                   PARSERS, filterVars, pureVars, registryVars, producerVars, blockVars>>

\* http2.rs:42-64  ProducerService::call
ProducerServiceCall(c, path) ==
    /\ c \in 1..Len(conns)
    /\ CASE path = "/" ->
                /\ last_response' = "200 Subscribe to one of the streams"
                /\ UNCHANGED <<conns, streams>>
         [] path = "/messages/data" ->
                /\ Len(streams) < MaxStreams
                /\ streams' = Append(streams, Stream(conns[c]))
                /\ conns' = [conns EXCEPT ![c] = resubscribe]
                /\ last_response' = "200 stream"
         [] OTHER ->
                /\ last_response' = "404"
                /\ UNCHANGED <<conns, streams>>
    /\ UNCHANGED <<tail, make_receiver, server,
                   PARSERS, filterVars, pureVars, registryVars, producerVars, blockVars>>

\* http2.rs:56-58  hyper polls the response body: a frame is written to the
\* subscriber; an Err item (Lagged) ends the body with an error and the
\* HTTP/2 stream is reset
PollStream_shared_cursor(i) ==
    /\ i \in 1..Len(streams)
    /\ streams[i].status = "open"
    /\ LET r == recv(streams[i].receiver)
       IN /\ r.kind # "Empty"
          /\ streams' = [j \in 1..Len(streams) |->
                IF j = i
                THEN IF r.kind = "Ok"
                     THEN [streams[j] EXCEPT !.receiver = r.receiver,
                                             !.received = Append(@, r.frame)]
                     ELSE [streams[j] EXCEPT !.receiver = r.receiver,
                                             !.lagged = TRUE,
                                             !.status = "error"]
                ELSE IF streams[j].receiver = streams[i].receiver
                     THEN [streams[j] EXCEPT !.receiver = r.receiver]
                     ELSE streams[j]]
    /\ UNCHANGED <<tail, make_receiver, conns, last_response, server,
                   PARSERS, filterVars, pureVars, registryVars, producerVars, blockVars>>

PollStream(i) ==
    /\ i \in 1..Len(streams)
    /\ streams[i].status = "open"
    /\ LET r == recv(streams[i].receiver)
       IN /\ r.kind # "Empty"
          /\ streams' = [streams EXCEPT ![i] =
                IF r.kind = "Ok"
                THEN [@ EXCEPT !.receiver = r.receiver,
                               !.received = Append(@, r.frame)]
                ELSE [@ EXCEPT !.receiver = r.receiver,
                               !.lagged = TRUE,
                               !.status = "error"]]
    /\ UNCHANGED <<tail, make_receiver, conns, last_response, server,
                   PARSERS, filterVars, pureVars, registryVars, producerVars, blockVars>>

NextHttp ==
    \/ SendData
    \/ MakeProducerServiceCall
    \/ \E c \in 1..MaxConns, path \in Paths : ProducerServiceCall(c, path)
    \/ \E i \in 1..MaxStreams : PollStream(i)

SpecHttp == InitHttp /\ [][NextHttp]_vars

\* C9: a subscriber whose /messages/data request is accepted at t0 and that
\* keeps up with the ring receives exactly the frames sent after t0, in the
\* order the channel accepted them: none sent before t0, none skipped, none
\* duplicated.
C9_FramesAfterAccept ==
    \A i \in 1..Len(streams) :
        ~streams[i].lagged =>
            streams[i].received =
                [k \in 1..Len(streams[i].received) |-> streams[i].accepted_at + k]

\* C10: a subscriber that falls behind by more than the ring capacity loses
\* the oldest pending frames only; its stream stays open and it goes on to
\* receive the later frames. Stated for the subscribers whose receiver began
\* at the frame count of the accept, so that every frame they lose is one
\* they fell behind on after subscribing.
C10_LaggedStreamStaysOpen ==
    \A i \in 1..Len(streams) :
        (streams[i].start = streams[i].accepted_at /\ streams[i].lagged)
            => streams[i].status = "open"

\* C12: send_data on the HTTP/2 transport never waits for subscribers: in
\* every state, whatever the number of subscribers, however far they lag and
\* also when the ring is full, a send completes in one step.
C12_SendNeverWaits ==
    tail < MaxFrames => ENABLED SendData

\* C12 witness: with two subscribers streaming, sends have completed while one
\* of them, subscribed at the current tail, fell more than a full ring behind.
C12_Witness ==
    /\ last_send.result = "ok"
    /\ Cardinality({i \in 1..Len(streams) : streams[i].status = "open"}) >= 2
    /\ \E i \in 1..Len(streams) :
            /\ streams[i].status = "open"
            /\ streams[i].start = streams[i].accepted_at
            /\ tail - streams[i].receiver > RingSize

\* C25: every /messages/data stream has its own cursor on the ring: the
\* frames a stream has been given are the consecutive frames after the
\* position its own receiver started at, and its cursor stands that many
\* frames further, whatever the other streams have consumed and however far
\* they lag.
C25_IndependentCursors ==
    \A i \in 1..Len(streams) :
        /\ streams[i].received =
                [k \in 1..Len(streams[i].received) |-> streams[i].start + k]
        /\ ~streams[i].lagged =>
                streams[i].receiver = streams[i].start + Len(streams[i].received)

\* C25 witness: two open streams whose receivers started at the same
\* position; one has consumed every frame, the other none and is more than
\* a full ring behind.
C25_Witness ==
    \E i, j \in 1..Len(streams) :
        /\ i # j
        /\ streams[i].status = "open" /\ streams[j].status = "open"
        /\ streams[i].start = streams[j].start
        /\ Len(streams[i].received) = MaxFrames
        /\ streams[i].receiver = tail
        /\ streams[j].received = <<>>
        /\ tail - streams[j].receiver > RingSize

(***************************************************************************)
(* SpecProducer: Producer on either transport (producer/mod.rs)            *)
(***************************************************************************)
\* producer/mod.rs:69-70
PREFIX_four_dashes == <<45, 45, 45, 45, 10>>

PREFIX == <<45, 45, 45, 45, 45, 10>>

POSTFIX == <<10, 45, 45, 45, 45, 45, 10>>

\* The buffers handed to the producer: the empty buffer, the two bytes of the
\* stdio framing scenario, a buffer that is a single newline
Data == {<<>>, <<1, 2>>, <<10>>}

\* producer/mod.rs:76  io::stdout().write_all(&output): the stream is locked
\* for the whole call; the sink takes the first `accepted` bytes, and the call
\* is Ok only when it took them all
write_all(out, buf, accepted) ==
    IF accepted >= Len(buf) THEN [result |-> "ok", stdout |-> out \o buf]
    ELSE [result |-> "err", stdout |-> out \o SubSeq(buf, 1, accepted)]

\* producer/mod.rs:65-80  Producer::send_data_sync
send_data_sync(inner, out, data, accepted) ==
    IF inner = "Http2" THEN [result |-> "panic", stdout |-> out]
    ELSE write_all(out, PREFIX \o data \o POSTFIX, accepted)

\* producer/mod.rs:56-63  Producer::send_data; the Http2 arm pushes into the
\* broadcast channel and leaves standard output alone
send_data_stdio_unframed(inner, out, data, accepted) ==
    IF inner = "Http2"
    THEN [result |-> IF broadcast_send(receiver_count).ok THEN "ok" ELSE "err",
          stdout |-> out]
    ELSE write_all(out, data, accepted)

send_data(inner, out, data, accepted) ==
    IF inner = "Http2"
    THEN [result |-> IF broadcast_send(receiver_count).ok THEN "ok" ELSE "err",
          stdout |-> out]
    ELSE send_data_sync(inner, out, data, accepted)

\* The longest buffer written for a datum
FrameLen(data) == Len(PREFIX) + Len(data) + Len(POSTFIX)

\* producer/mod.rs:38-53  Producer::new(transport)
InitProducer ==
    /\ PARSERS = <<>>
    /\ FilterIdle
    /\ pure_call = NoCall
    /\ RegistryIdle
    /\ HttpIdle
    /\ last_send = NoSend
    /\ transport \in {"Http2", "Stdio"}
    /\ stdout = <<>>
    /\ writes = 0
    /\ writers = [w \in 1..NumWriters |-> NoWrite]
    /\ stdout_lock = 0
    /\ BlockIdle

\* producer/mod.rs:61  Producer::send_data, Stdio arm
SendDataStdio ==
    /\ transport = "Stdio"
    /\ writes < MaxWrites
    /\ \E data \in Data : \E accepted \in 0..FrameLen(data) :
        LET r == send_data(transport, stdout, data, accepted)
        IN /\ stdout' = r.stdout
           /\ last_send' = [fn |-> "send_data", data |-> data,
                            result |-> r.result, before |-> Len(stdout)]
    /\ writes' = writes + 1
    /\ UNCHANGED <<transport, writers, stdout_lock, PARSERS, filterVars, pureVars, registryVars, httpVars, blockVars>>

\* producer/mod.rs:65-80  Producer::send_data_sync on either transport
SendDataSync ==
    /\ writes < MaxWrites
    /\ \E data \in Data : \E accepted \in 0..FrameLen(data) :
        LET r == send_data_sync(transport, stdout, data, accepted)
        IN /\ stdout' = r.stdout
           /\ last_send' = [fn |-> "send_data_sync", data |-> data,
                            result |-> r.result, before |-> Len(stdout)]
           /\ panicked' = (panicked \/ r.result = "panic")
    /\ writes' = IF transport = "Stdio" THEN writes + 1 ELSE writes
    /\ UNCHANGED <<transport, writers, stdout_lock, init_pc, init_built, init_after, init_log, observed,
                   first_stored, PARSERS, filterVars, pureVars, httpVars, blockVars>>

\* http2.rs:16-26  the spawned server task ends: Server::bind panics when the
\* address cannot be bound, or server.await returns an error that is logged.
\* The receiver moved into MakeProducerService is dropped with the task.
ServerEnd ==
    /\ transport = "Http2"
    /\ server = "running"
    /\ server' = "ended"
    /\ make_receiver' = 0
    /\ UNCHANGED <<tail, conns, streams, last_response,
                   PARSERS, filterVars, pureVars, registryVars, producerVars, blockVars>>

NextProducer ==
    \/ SendData
    \/ SendDataStdio
    \/ SendDataSync
    \/ ServerEnd

SpecProducer == InitProducer /\ [][NextProducer]_vars

\* C11: Producer::send_data on the HTTP/2 transport returns success for every
\* buffer, also when no receiver of the channel is alive at that moment (the
\* frame is then dropped).
C11_SendSucceedsWithoutReceiver ==
    (transport = "Http2" /\ last_send.fn = "send_data") => last_send.result = "ok"

\* C20: after startup no public operation panics on either transport: a
\* runtime failure is an error value or a logged error.
C20_NeverPanics ==
    ~panicked

\* The reader of a framed byte stream: a 32-bit big-endian length, then that
\* many bytes of body; the rest is where the next frame begins
from_be_bytes(b) == b[1] * 16777216 + b[2] * 65536 + b[3] * 256 + b[4]

read_frame(stream) ==
    LET len == from_be_bytes(SubSeq(stream, 1, 4))
    IN [body |-> SubSeq(stream, 5, 4 + len),
        rest |-> SubSeq(stream, 5 + len, Len(stream))]

\* C13: on the Stdio transport every send writes to standard output exactly
\* "-----\n", the datum unchanged, "\n-----\n", that is |datum| + 13 bytes
\* (a send whose write fails returns the error and has written a proper
\* prefix of that frame); send_data produces the same output and result as
\* send_data_sync.
C13_StdioFraming ==
    transport = "Stdio" =>
        /\ last_send.fn # "" =>
            LET before == SubSeq(stdout, 1, last_send.before)
                frame == <<45, 45, 45, 45, 45, 10>> \o last_send.data
                            \o <<10, 45, 45, 45, 45, 45, 10>>
            IN /\ last_send.result \in {"ok", "err"}
               /\ last_send.result = "ok" =>
                    /\ stdout = before \o frame
                    /\ Len(stdout) = last_send.before + Len(last_send.data) + 13
               /\ last_send.result = "err" =>
                    /\ Len(stdout) < last_send.before + Len(last_send.data) + 13
                    /\ stdout = SubSeq(before \o frame, 1, Len(stdout))
        /\ \A data \in Data : \A accepted \in 0..(Len(data) + 13) :
            send_data("Stdio", stdout, data, accepted)
                = send_data_sync("Stdio", stdout, data, accepted)

\* C13 witness: a second frame written by the asynchronous send_data after a
\* first one, the datum being a newline byte.
C13_Witness ==
    /\ transport = "Stdio"
    /\ last_send.fn = "send_data"
    /\ last_send.result = "ok"
    /\ last_send.data = <<10>>
    /\ last_send.before = 15
    /\ Len(stdout) = 29

\* The single send of scenario S-6: the bytes 0x01 0x02 sent once on a fresh
\* Stdio producer, the write succeeding
ScenarioS6 ==
    /\ transport = "Stdio"
    /\ writes = 1
    /\ last_send.fn # ""
    /\ last_send.data = <<1, 2>>
    /\ last_send.result = "ok"

\* C14 as stated: the send of scenario S-6 writes "-----\n\x01\x02\n-----\n",
\* 20 bytes in total.
C14_Original ==
    ScenarioS6 =>
        /\ stdout = <<45, 45, 45, 45, 45, 10, 1, 2, 10, 45, 45, 45, 45, 45, 10>>
        /\ Len(stdout) = 20

\* C14: the send of scenario S-6 writes exactly "-----\n\x01\x02\n-----\n",
\* which is 15 bytes in total.
C14_ScenarioS6 ==
    ScenarioS6 =>
        /\ stdout = <<45, 45, 45, 45, 45, 10, 1, 2, 10, 45, 45, 45, 45, 45, 10>>
        /\ Len(stdout) = 15

\* C14 witness: scenario S-6 has run.
C14_Witness ==
    ScenarioS6 /\ last_send.fn = "send_data_sync" /\ last_send.before = 0

\* C15: the JSON serializer output is a 4-byte big-endian length followed by
\* the JSON body; the length is that of the body alone, the total is 4 + body
\* length, and a reader that reads the prefix and then that many bytes
\* recovers exactly the body and the start of the next frame.
C15_JsonFraming ==
    pure_call.fn = "write_json_with_prefix" =>
        LET json == to_vec(pure_call.message, pure_call.renders)
            out == pure_call.buffer
        IN /\ out.ok = pure_call.renders
           /\ out.ok =>
                /\ Len(out.bytes) = 4 + Len(json.bytes)
                /\ from_be_bytes(SubSeq(out.bytes, 1, 4)) = Len(json.bytes)
                /\ SubSeq(out.bytes, 5, Len(out.bytes)) = json.bytes
                /\ \A m \in SerializeMessages :
                    LET next == write_json_with_prefix(m, TRUE).bytes
                    IN read_frame(out.bytes \o next) = [body |-> json.bytes, rest |-> next]

\* C15 witness: a message whose JSON body is 13 bytes long has been framed.
C15_Witness ==
    /\ pure_call.fn = "write_json_with_prefix"
    /\ pure_call.buffer.ok
    /\ Len(pure_call.buffer.bytes) = 17
    /\ SubSeq(pure_call.buffer.bytes, 1, 4) = <<0, 0, 0, 13>>

(***************************************************************************)
(* SpecStdio: send_data_sync called by several send tasks at the same      *)
(* time, one write(2) at a time (producer/mod.rs:65-80)                    *)
(*                                                                         *)
(* io::stdout().write_all locks standard output, hands the buffer to the   *)
(* line writer, which passes a buffer ending in a newline on to the file   *)
(* descriptor with as many write(2) calls as it takes, and unlocks.        *)
(***************************************************************************)
Writers == 1..NumWriters

\* One write(2) of the remaining bytes: it takes them all or only MaxChunk
ShortWrites(remaining) == {remaining} \cup {n \in {MaxChunk} : n < remaining}

\* producer/mod.rs:38-53  Producer::new(Transport::Stdio)
InitStdio ==
    /\ PARSERS = <<>>
    /\ FilterIdle
    /\ pure_call = NoCall
    /\ RegistryIdle
    /\ HttpIdle
    /\ last_send = NoSend
    /\ transport = "Stdio"
    /\ stdout = <<>>
    /\ writes = 0
    /\ writers = [w \in Writers |-> NoWrite]
    /\ stdout_lock = 0
    /\ BlockIdle

\* producer/mod.rs:72-74  a task enters send_data_sync and assembles the
\* frame in one buffer: PREFIX, the datum, POSTFIX
StdioCall(w) ==
    /\ transport = "Stdio"
    /\ writers[w].pc = "idle"
    /\ writes < MaxWrites
    /\ \E data \in Data :
        writers' = [writers EXCEPT ![w] =
            [pc |-> "called", data |-> data, output |-> PREFIX \o data \o POSTFIX,
             written |-> 0, at |-> 0]]
    /\ writes' = writes + 1
    /\ UNCHANGED <<last_send, transport, stdout, stdout_lock,
                   PARSERS, filterVars, pureVars, registryVars, httpVars, blockVars>>

\* producer/mod.rs:76  io::stdout().write_all(&output), first the lock: the
\* task waits until no other task holds standard output
StdioLock_without_lock(w) ==
    /\ writers[w].pc = "called"
    /\ stdout_lock' = w
    /\ writers' = [writers EXCEPT ![w] = [@ EXCEPT !.pc = "writing", !.at = Len(stdout)]]
    /\ UNCHANGED <<last_send, transport, stdout, writes,
                   PARSERS, filterVars, pureVars, registryVars, httpVars, blockVars>>

StdioLock(w) ==
    /\ writers[w].pc = "called"
    /\ stdout_lock = 0
    /\ stdout_lock' = w
    /\ writers' = [writers EXCEPT ![w] = [@ EXCEPT !.pc = "writing", !.at = Len(stdout)]]
    /\ UNCHANGED <<last_send, transport, stdout, writes,
                   PARSERS, filterVars, pureVars, registryVars, httpVars, blockVars>>

\* producer/mod.rs:76  one write(2) of the rest of the buffer. After the last
\* byte write_all returns Ok, the lock guard is dropped and send_data_sync
\* returns Ok(()): the frame is on standard output.
StdioWrite(w) ==
    /\ writers[w].pc = "writing"
    /\ \E n \in ShortWrites(Len(writers[w].output) - writers[w].written) :
        LET cur == writers[w]
            end == cur.written + n
        IN /\ stdout' = stdout \o SubSeq(cur.output, cur.written + 1, end)
           /\ IF end = Len(cur.output)
              THEN /\ writers' = [writers EXCEPT ![w] = NoWrite]
                   /\ stdout_lock' = IF stdout_lock = w THEN 0 ELSE stdout_lock
                   /\ egress' = Append(egress,
                        [task |-> w, index |-> 1, data |-> cur.data, at |-> cur.at,
                         contended |-> \E v \in Writers : writers[v].pc = "called"])
                   /\ last_send' = [fn |-> "send_data_sync", data |-> cur.data,
                                    result |-> "ok", before |-> cur.at]
              ELSE /\ writers' = [writers EXCEPT ![w] = [@ EXCEPT !.written = end]]
                   /\ UNCHANGED <<stdout_lock, egress, last_send>>
    /\ UNCHANGED <<transport, writes, hb, tx_log, tasks, scanner,
                   PARSERS, filterVars, pureVars, registryVars, httpVars>>

\* producer/mod.rs:76  a write(2) fails: write_all returns the error, the lock
\* guard is dropped and the ? returns the error from send_data_sync; the
\* bytes written so far stay on standard output
StdioWriteFails(w) ==
    /\ writers[w].pc = "writing"
    /\ writers' = [writers EXCEPT ![w] = NoWrite]
    /\ stdout_lock' = IF stdout_lock = w THEN 0 ELSE stdout_lock
    /\ last_send' = [fn |-> "send_data_sync", data |-> writers[w].data,
                     result |-> "err", before |-> writers[w].at]
    /\ UNCHANGED <<transport, stdout, writes,
                   PARSERS, filterVars, pureVars, registryVars, httpVars, blockVars>>

NextStdio ==
    \/ \E w \in Writers : StdioCall(w)
    \/ \E w \in Writers : StdioLock(w)
    \/ \E w \in Writers : StdioWrite(w)
    \/ \E w \in Writers : StdioWriteFails(w)

SpecStdio == InitStdio /\ [][NextStdio]_vars

\* C29: frames on standard output are atomic under concurrency: every frame a
\* send has completed lies on standard output as one contiguous run
\* "-----\n", datum, "\n-----\n" starting where the send began to write, no
\* two frames overlap, and while a send is writing nobody else writes: the
\* bytes after its start are the part of its own frame written so far.
C29_StdioFramesAtomic ==
    /\ \A n \in 1..Len(egress) :
        LET e == egress[n]
            frame == <<45, 45, 45, 45, 45, 10>> \o e.data \o <<10, 45, 45, 45, 45, 45, 10>>
        IN /\ e.at + Len(frame) <= Len(stdout)
           /\ SubSeq(stdout, e.at + 1, e.at + Len(frame)) = frame
           /\ \A m \in 1..(n - 1) :
                egress[m].at + Len(egress[m].data) + 13 <= e.at
    /\ \A w \in Writers :
        writers[w].pc = "writing" =>
            /\ stdout_lock = w
            /\ \A v \in Writers \ {w} : writers[v].pc # "writing"
            /\ Len(stdout) = writers[w].at + writers[w].written
            /\ SubSeq(stdout, writers[w].at + 1, Len(stdout))
                    = SubSeq(writers[w].output, 1, writers[w].written)

\* C29 witness: a frame was completed while another task was inside
\* send_data_sync waiting for standard output; that task then took the lock
\* and has written the first part of its own frame right after it.
C29_Witness ==
    /\ Len(egress) = 1
    /\ egress[1].contended
    /\ egress[1].data = <<1, 2>>
    /\ \E w \in Writers :
        /\ w # egress[1].task
        /\ writers[w].pc = "writing"
        /\ writers[w].written = MaxChunk
        /\ writers[w].at = Len(egress[1].data) + 13
        /\ Len(stdout) = writers[w].at + MaxChunk

(***************************************************************************)
(* SpecBlock: BlocksHandler::handle_block and the detached send tasks      *)
(* (blocks_handler/mod.rs)                                                 *)
(*                                                                         *)
(* handle_block runs without an await; the tasks it spawns run on the      *)
(* other workers of the runtime, so their sends interleave with the rest   *)
(* of handle_block and with each other.                                    *)
(***************************************************************************)
\* blocks_handler/mod.rs:97  the start_date passed to filter_transaction:
\* NaiveDate::default(), 1970-01-01
DefaultStartDate == 0

\* A transaction slice of an account block. decodes = FALSE: reference(0) or
\* construct_from_cell fails (mod.rs:90-92). unserializable: the hashes of the
\* messages serialize_message fails on.
RawTransaction(decodes, t, unserializable) ==
    [decodes |-> decodes, t |-> t, unserializable |-> unserializable]

\* mod.rs:49-77  an account block: its state update and its transactions
AccountBlock(state_update_ok, transactions) ==
    [state_update_ok |-> state_update_ok, transactions |-> transactions]

\* mod.rs:35-48  a block: read_extra, read_account_blocks, the account blocks
BlockStuff(root_hash, extra_ok, account_blocks_ok, account_blocks) ==
    [root_hash |-> root_hash, extra_ok |-> extra_ok,
     account_blocks_ok |-> account_blocks_ok, account_blocks |-> account_blocks]

\* The registry of the run: one AnyMessage record whose entry has no constraint
BlockConfig ==
    << FilterRecord("AnyMessage", "", TRUE,
            << FilterEntry("all", NoConstraint, NoConstraint, <<>>) >>) >>

\* Transactions of the blocks: one with an inbound and an outbound message,
\* one with a single outbound message
TxInOut ==
    Transaction(SecsPerDay, << Msg("IntMsgInfo", 1, 2, "", TRUE) >>,
                << Msg("IntMsgInfo", 2, 1, "", TRUE) >>)

TxOut ==
    Transaction(SecsPerDay, <<>>, << Msg("ExtOutMsgInfo", 1, NoAddr, "transfer", TRUE) >>)

Blocks ==
    { BlockStuff(1, TRUE, TRUE,
        << AccountBlock(TRUE, << RawTransaction(TRUE, TxInOut, {0}) >>) >>),
      BlockStuff(2, TRUE, TRUE,
        << AccountBlock(TRUE, << RawTransaction(FALSE, NoTx, {}),
                                 RawTransaction(TRUE, TxOut, {}) >>),
           AccountBlock(TRUE, << RawTransaction(TRUE, TxInOut, {}) >>) >>),
      BlockStuff(3, TRUE, TRUE,
        << AccountBlock(TRUE, << RawTransaction(TRUE, TxOut, {}) >>),
           AccountBlock(FALSE, << RawTransaction(TRUE, TxInOut, {}) >>) >>),
      BlockStuff(4, FALSE, TRUE, <<>>),
      BlockStuff(5, TRUE, FALSE, <<>>) }

\* types/mod.rs:74-90 and mod.rs:102-105  SerializeMessage { block_id, ..msg.into() }
\* (the hash of the transaction is not told apart by the model)
SerializeMessage_from(msg, block_id) ==
    SerializeMessage(msg.message, msg.message_hash, msg.message_type, block_id, 0,
                     msg.tx.now, msg.index_in_transaction,
                     msg.contract_name, msg.filter_name)

\* serializer/mod.rs:31-38  Serializer::serialize_message, Json
serialize_message(message, renders) == write_json_with_prefix(message, renders)

\* mod.rs:100-112  the serialized buffers of a transaction's messages:
\* serialized.unwrap_or_default() turns a failure into the empty buffer
serialize_all_skip_failed(messages, block_id, unserializable) ==
    LET kept == SelectSeq(messages, LAMBDA m : m.message_hash \notin unserializable)
    IN [i \in 1..Len(kept) |->
            serialize_message(SerializeMessage_from(kept[i], block_id), TRUE).bytes]

serialize_all(messages, block_id, unserializable) ==
    [i \in 1..Len(messages) |->
        LET serialized == serialize_message(
                            SerializeMessage_from(messages[i], block_id),
                            messages[i].message_hash \notin unserializable)
        IN IF serialized.ok THEN serialized.bytes ELSE <<>>]

\* mod.rs:83-129  BlocksHandler::transaction: the result, the filtered
\* messages and the buffers moved into the spawned task
transaction(raw_transaction, block_id, state) ==
    IF ~raw_transaction.decodes
    THEN [ok |-> FALSE, spawned |-> FALSE, messages |-> <<>>, serialized |-> <<>>]
    ELSE LET messages == filter_transaction(raw_transaction.t, state, DefaultStartDate)
         IN [ok |-> TRUE, spawned |-> TRUE, messages |-> messages,
             serialized |-> serialize_all(messages, block_id,
                                          raw_transaction.unserializable)]

\* mod.rs:71-74  the closure of iterate_slices: an error of transaction() is
\* logged and the iteration goes on
on_transaction_result_propagate(result_ok) == [continue |-> result_ok]

on_transaction_result(result_ok) == [continue |-> TRUE]

\* mod.rs:116-126  a spawned task: the buffers it owns, the next one to hand
\* to send_data, per buffer the number of send_data calls and the result
Task(tx_index, serialized) ==
    [tx |-> tx_index, buffers |-> serialized, next |-> 1,
     attempts |-> [i \in 1..Len(serialized) |-> 0],
     results |-> [i \in 1..Len(serialized) |-> ""],
     done |-> (Len(serialized) = 0)]

\* mod.rs:117-125  join_all over the send_data futures: every future runs to
\* its result, an error is logged and the next result is taken
task_after_send_stop_on_error(task, result) ==
    [task EXCEPT !.attempts[task.next] = @ + 1,
                 !.results[task.next] = result,
                 !.next = @ + 1,
                 !.done = (task.next + 1 > Len(task.buffers)) \/ result # "ok"]

task_after_send(task, result) ==
    [task EXCEPT !.attempts[task.next] = @ + 1,
                 !.results[task.next] = result,
                 !.next = @ + 1,
                 !.done = (task.next + 1 > Len(task.buffers))]

\* What the sink of standard output does with a frame in this run: it takes
\* nothing or it takes every byte
Accepts(data) == IF transport = "Stdio" THEN {0, FrameLen(data)} ELSE {0}

\* main.rs:65-68  init_parsers, Producer::new, BlocksHandler::new
InitBlock ==
    /\ PARSERS = <<init_all_parsers(BlockConfig).parsers>>
    /\ FilterIdle
    /\ pure_call = NoCall
    /\ RegistryIdle
    /\ HttpIdle
    /\ last_send = NoSend
    /\ transport \in {"Http2", "Stdio"}
    /\ stdout = <<>>
    /\ writes = 0
    /\ writers = [w \in 1..NumWriters |-> NoWrite]
    /\ stdout_lock = 0
    /\ BlockIdle

\* mod.rs:35-48  the head of handle_block: read_extra()?, read_account_blocks()?
handle_block_head(call, block) ==
    IF block.extra_ok /\ block.account_blocks_ok
    THEN [call EXCEPT !.pc = "account_block", !.calls = @ + 1,
                      !.block = block, !.ab = 1, !.txi = 0, !.result = ""]
    ELSE [call EXCEPT !.pc = "returned", !.calls = @ + 1,
                      !.block = block, !.ab = 0, !.txi = 0, !.result = "err"]

\* mod.rs:30-48  handle_block is called
HandleBlockCall ==
    /\ hb.pc = "idle"
    /\ hb.calls < MaxBlocks
    /\ \E block \in Blocks : hb' = handle_block_head(hb, block)
    /\ UNCHANGED <<tx_log, tasks, egress, scanner,
                   PARSERS, filterVars, pureVars, registryVars, httpVars, producerVars>>

\* mod.rs:49-60 and :80  the next account block: read_state_update()?, or the
\* end of the dictionary and Ok(())
HandleAccountBlock_cancels_tasks ==
    /\ hb.pc = "account_block"
    /\ hb' = IF hb.ab > Len(hb.block.account_blocks)
             THEN [hb EXCEPT !.pc = "returned", !.result = "ok"]
             ELSE IF ~hb.block.account_blocks[hb.ab].state_update_ok
                  THEN [hb EXCEPT !.pc = "returned", !.result = "err"]
                  ELSE [hb EXCEPT !.pc = "transaction", !.txi = 1]
    /\ tasks' = IF hb.ab <= Len(hb.block.account_blocks)
                    /\ ~hb.block.account_blocks[hb.ab].state_update_ok
                THEN [k \in 1..Len(tasks) |->
                        IF tx_log[tasks[k].tx].call = hb.calls
                        THEN [tasks[k] EXCEPT !.done = TRUE]
                        ELSE tasks[k]]
                ELSE tasks
    /\ UNCHANGED <<tx_log, egress, scanner,
                   PARSERS, filterVars, pureVars, registryVars, httpVars, producerVars>>

HandleAccountBlock ==
    /\ hb.pc = "account_block"
    /\ hb' = IF hb.ab > Len(hb.block.account_blocks)
             THEN [hb EXCEPT !.pc = "returned", !.result = "ok"]
             ELSE IF ~hb.block.account_blocks[hb.ab].state_update_ok
                  THEN [hb EXCEPT !.pc = "returned", !.result = "err"]
                  ELSE [hb EXCEPT !.pc = "transaction", !.txi = 1]
    /\ UNCHANGED <<tx_log, tasks, egress, scanner,
                   PARSERS, filterVars, pureVars, registryVars, httpVars, producerVars>>

\* mod.rs:62-75  the next transaction of the account block: self.transaction(..),
\* which spawns the send task and returns; or the end of the account block
HandleTransaction_awaits_sends ==
    /\ hb.pc = "transaction"
    /\ \A k \in 1..Len(tasks) : tasks[k].done
    /\ LET txs == hb.block.account_blocks[hb.ab].transactions
       IN IF hb.txi > Len(txs)
          THEN /\ hb' = [hb EXCEPT !.pc = "account_block", !.ab = @ + 1, !.txi = 0]
               /\ UNCHANGED <<tx_log, tasks>>
          ELSE \E r \in {transaction(txs[hb.txi], hb.block.root_hash, <<>>)} :
                  /\ tx_log' = Append(tx_log,
                        [call |-> hb.calls, ab |-> hb.ab, txi |-> hb.txi,
                         raw |-> txs[hb.txi],
                         result |-> IF r.ok THEN "ok" ELSE "err",
                         task |-> IF r.spawned THEN Len(tasks) + 1 ELSE 0])
                  /\ tasks' = IF r.spawned
                              THEN Append(tasks, Task(Len(tx_log) + 1, r.serialized))
                              ELSE tasks
                  /\ hb' = IF on_transaction_result(r.ok).continue
                           THEN [hb EXCEPT !.txi = @ + 1]
                           ELSE [hb EXCEPT !.pc = "returned", !.result = "err"]
    /\ UNCHANGED <<egress, scanner,
                   PARSERS, filterVars, pureVars, registryVars, httpVars, producerVars>>

HandleTransaction ==
    /\ hb.pc = "transaction"
    /\ LET txs == hb.block.account_blocks[hb.ab].transactions
       IN IF hb.txi > Len(txs)
          THEN /\ hb' = [hb EXCEPT !.pc = "account_block", !.ab = @ + 1, !.txi = 0]
               /\ UNCHANGED <<tx_log, tasks>>
          ELSE \E r \in {transaction(txs[hb.txi], hb.block.root_hash, <<>>)} :
                  /\ tx_log' = Append(tx_log,
                        [call |-> hb.calls, ab |-> hb.ab, txi |-> hb.txi,
                         raw |-> txs[hb.txi],
                         result |-> IF r.ok THEN "ok" ELSE "err",
                         task |-> IF r.spawned THEN Len(tasks) + 1 ELSE 0])
                  /\ tasks' = IF r.spawned
                              THEN Append(tasks, Task(Len(tx_log) + 1, r.serialized))
                              ELSE tasks
                  /\ hb' = IF on_transaction_result(r.ok).continue
                           THEN [hb EXCEPT !.txi = @ + 1]
                           ELSE [hb EXCEPT !.pc = "returned", !.result = "err"]
    /\ UNCHANGED <<egress, scanner,
                   PARSERS, filterVars, pureVars, registryVars, httpVars, producerVars>>

\* The caller of handle_block takes the result
HandleBlockReturn ==
    /\ hb.pc = "returned"
    /\ hb' = [hb EXCEPT !.pc = "idle", !.block = <<>>, !.ab = 0, !.txi = 0, !.result = ""]
    /\ UNCHANGED <<tx_log, tasks, egress, scanner,
                   PARSERS, filterVars, pureVars, registryVars, httpVars, producerVars>>

\* mod.rs:116-120  a spawned task hands its next buffer to producer.send_data.
\* The tasks run on the workers of the multi-threaded runtime
\* (main.rs:28), each on its own; within a task join_all polls the futures
\* in the order of the buffers and each completes at its first poll.
TaskSend_any_order(k) ==
    /\ k \in 1..Len(tasks)
    /\ ~tasks[k].done
    /\ \E j \in 1..Len(tasks[k].buffers) :
        /\ tasks[k].attempts[j] = 0
        /\ LET data == tasks[k].buffers[j]
           IN \E accepted \in Accepts(data) :
                LET r == send_data(transport, stdout, data, accepted)
                IN /\ stdout' = r.stdout
                   /\ tail' = IF transport = "Http2"
                              THEN broadcast_send(receiver_count).tail ELSE tail
                   /\ egress' = IF r.result = "ok"
                                THEN Append(egress, [task |-> k, index |-> j, data |-> data])
                                ELSE egress
                   /\ tasks' = [tasks EXCEPT ![k] =
                        [@ EXCEPT !.attempts[j] = 1,
                                  !.results[j] = r.result,
                                  !.done = \A i \in 1..Len(tasks[k].buffers) :
                                                i = j \/ tasks[k].attempts[i] = 1]]
                   /\ last_send' = [fn |-> "send_data", data |-> data,
                                    result |-> r.result, before |-> Len(stdout)]
    /\ writes' = IF transport = "Stdio" THEN writes + 1 ELSE writes
    /\ UNCHANGED <<hb, tx_log, scanner, transport, writers, stdout_lock, make_receiver, conns, streams,
                   last_response, server, PARSERS, filterVars, pureVars, registryVars>>

TaskSend_in_spawn_order(k) ==
    /\ k \in 1..Len(tasks)
    /\ ~tasks[k].done
    /\ \A e \in 1..(k - 1) : tasks[e].done
    /\ LET data == tasks[k].buffers[tasks[k].next]
       IN \E accepted \in Accepts(data) :
            LET r == send_data(transport, stdout, data, accepted)
            IN /\ stdout' = r.stdout
               /\ tail' = IF transport = "Http2"
                          THEN broadcast_send(receiver_count).tail ELSE tail
               /\ egress' = IF r.result = "ok"
                            THEN Append(egress, [task |-> k, index |-> tasks[k].next,
                                                 data |-> data])
                            ELSE egress
               /\ tasks' = [tasks EXCEPT ![k] = task_after_send(tasks[k], r.result)]
               /\ last_send' = [fn |-> "send_data", data |-> data,
                                result |-> r.result, before |-> Len(stdout)]
    /\ writes' = IF transport = "Stdio" THEN writes + 1 ELSE writes
    /\ UNCHANGED <<hb, tx_log, scanner, transport, writers, stdout_lock, make_receiver, conns, streams,
                   last_response, server, PARSERS, filterVars, pureVars, registryVars>>

TaskSend(k) ==
    /\ k \in 1..Len(tasks)
    /\ ~tasks[k].done
    /\ LET data == tasks[k].buffers[tasks[k].next]
       IN \E accepted \in Accepts(data) :
            LET r == send_data(transport, stdout, data, accepted)
            IN /\ stdout' = r.stdout
               /\ tail' = IF transport = "Http2"
                          THEN broadcast_send(receiver_count).tail ELSE tail
               /\ egress' = IF r.result = "ok"
                            THEN Append(egress, [task |-> k, index |-> tasks[k].next,
                                                 data |-> data])
                            ELSE egress
               /\ tasks' = [tasks EXCEPT ![k] = task_after_send(tasks[k], r.result)]
               /\ last_send' = [fn |-> "send_data", data |-> data,
                                result |-> r.result, before |-> Len(stdout)]
    /\ writes' = IF transport = "Stdio" THEN writes + 1 ELSE writes
    /\ UNCHANGED <<hb, tx_log, scanner, transport, writers, stdout_lock, make_receiver, conns, streams,
                   last_response, server, PARSERS, filterVars, pureVars, registryVars>>

NextBlock ==
    \/ HandleBlockCall
    \/ HandleAccountBlock
    \/ HandleTransaction
    \/ HandleBlockReturn
    \/ \E k \in 1..Len(tasks) : TaskSend(k)
    \/ ServerEnd

SpecBlock == InitBlock /\ [][NextBlock]_vars

\* The transactions of a block in the order handle_block reaches them
RECURSIVE RawOf(_, _)
RawOf(account_blocks, n) ==
    IF n = 0 THEN <<>>
    ELSE RawOf(account_blocks, n - 1) \o account_blocks[n].transactions

\* Every block-level part of the block decodes
BlockLevelOk(block) ==
    /\ block.extra_ok
    /\ block.account_blocks_ok
    /\ \A a \in 1..Len(block.account_blocks) : block.account_blocks[a].state_update_ok

\* The log entries of one handle_block call
CallLog(c) == SelectSeq(tx_log, LAMBDA e : e.call = c)

\* C16: a transaction that fails to decode inside handle_block produces no
\* messages (no task, nothing sent); every other transaction of the same
\* account block and of the later account blocks is still processed, and
\* handle_block returns ok.
C16_TransactionErrorsNonFatal ==
    /\ \A i \in 1..Len(tx_log) :
        ~tx_log[i].raw.decodes =>
            /\ tx_log[i].result = "err"
            /\ tx_log[i].task = 0
            /\ \A k \in 1..Len(tasks) : tasks[k].tx # i
    /\ (hb.pc = "returned" /\ BlockLevelOk(hb.block)) =>
            LET log == CallLog(hb.calls)
                raws == RawOf(hb.block.account_blocks, Len(hb.block.account_blocks))
            IN /\ hb.result = "ok"
               /\ Len(log) = Len(raws)
               /\ \A i \in 1..Len(log) :
                    /\ log[i].raw = raws[i]
                    /\ raws[i].decodes =>
                        /\ log[i].result = "ok"
                        /\ log[i].task \in 1..Len(tasks)

\* C16 witness: handle_block has returned ok for a block whose first
\* transaction does not decode and is followed by a transaction of the same
\* account block and by one of a later account block, both processed.
C16_Witness ==
    /\ hb.pc = "returned"
    /\ hb.result = "ok"
    /\ Len(tx_log) = 3
    /\ ~tx_log[1].raw.decodes
    /\ tx_log[2].ab = tx_log[1].ab /\ tx_log[2].task # 0
    /\ tx_log[3].ab > tx_log[1].ab /\ tx_log[3].task # 0

\* C17: for every transaction the buffers handed to the producer are as many
\* as the messages returned by the filter engine, in the same positions; a
\* message whose serialization fails is an empty buffer that is still sent;
\* the other messages are framed as usual and the transaction's result is ok.
C17_SerializationFailureKeepsCount ==
    \A k \in 1..Len(tasks) :
        LET e == tx_log[tasks[k].tx]
            msgs == filter_transaction(e.raw.t, <<>>, 0)
        IN /\ e.result = "ok"
           /\ Len(tasks[k].buffers) = Len(msgs)
           /\ \A j \in 1..Len(msgs) :
                IF msgs[j].message_hash \in e.raw.unserializable
                THEN tasks[k].buffers[j] = <<>>
                ELSE /\ Len(tasks[k].buffers[j]) > 4
                     /\ read_frame(tasks[k].buffers[j]).rest = <<>>
                     /\ read_frame(tasks[k].buffers[j]).body
                            = <<123>> \o digits(msgs[j].tx.now) \o <<44>>
                                \o digits(msgs[j].index_in_transaction) \o <<125>>
           /\ tasks[k].done => \A j \in 1..Len(msgs) : tasks[k].attempts[j] = 1

\* C17 witness: a transaction with two messages, the first of which failed to
\* serialize; both buffers were sent and accepted, the first one empty.
C17_Witness ==
    \E k \in 1..Len(tasks) :
        /\ tasks[k].done
        /\ Len(tasks[k].buffers) = 2
        /\ tasks[k].buffers[1] = <<>>
        /\ tasks[k].buffers[2] # <<>>
        /\ tasks[k].results = <<"ok", "ok">>
        /\ \E n \in 1..Len(egress) : egress[n].task = k /\ egress[n].data = <<>>

\* C18: the caller of handle_block is never blocked by egress: every step of
\* handle_block, its return included, can be taken whatever the state of the
\* send tasks, none of whose sends needs to have started or completed.
C18_CallerNeverBlocked ==
    /\ hb.pc = "account_block" => ENABLED HandleAccountBlock
    /\ hb.pc = "transaction" => ENABLED HandleTransaction
    /\ hb.pc = "returned" => ENABLED HandleBlockReturn

\* C18 witness: handle_block has returned ok while no send of its two
\* transactions' tasks has started.
C18_Witness ==
    /\ hb.pc = "returned"
    /\ hb.result = "ok"
    /\ Len(tasks) = 2
    /\ \A k \in 1..Len(tasks) :
        /\ Len(tasks[k].buffers) > 0
        /\ \A j \in 1..Len(tasks[k].buffers) : tasks[k].attempts[j] = 0
    /\ egress = <<>>

\* C19: send errors are never retried and never propagated: every buffer is
\* passed to send_data at most once and, when its task ends, exactly once,
\* also after a failed send of the same transaction; the results of
\* transaction() and handle_block depend on the block alone.
C19_SendErrorsNotRetriedNotPropagated ==
    /\ \A k \in 1..Len(tasks) :
        /\ \A j \in 1..Len(tasks[k].buffers) :
            /\ tasks[k].attempts[j] <= 1
            /\ Cardinality({n \in 1..Len(egress) :
                    egress[n].task = k /\ egress[n].index = j})
                 = (IF tasks[k].results[j] = "ok" THEN 1 ELSE 0)
        /\ tasks[k].done =>
            \A j \in 1..Len(tasks[k].buffers) :
                tasks[k].attempts[j] = 1 /\ tasks[k].results[j] \in {"ok", "err"}
    /\ \A i \in 1..Len(tx_log) :
        tx_log[i].result = (IF tx_log[i].raw.decodes THEN "ok" ELSE "err")
    /\ hb.pc = "returned" =>
        hb.result = (IF BlockLevelOk(hb.block) THEN "ok" ELSE "err")

\* C19 witness: the first send of a transaction failed and the second one was
\* still made and accepted; another task's sends all failed; handle_block
\* had returned ok.
C19_Witness ==
    /\ hb.calls = 1 /\ hb.pc = "idle"
    /\ \E k \in 1..Len(tasks) :
        /\ tasks[k].done
        /\ tasks[k].results = <<"err", "ok">>
    /\ \E k \in 1..Len(tasks) :
        /\ tasks[k].done
        /\ tasks[k].results = <<"err">>

\* C26: across the transactions of a block the order in which frames enter
\* the egress is not fixed: a task that still holds buffers can send its next
\* one in every state, whatever the tasks spawned before it have done, so a
\* frame of a later transaction can be accepted before a frame of an earlier
\* one and the frames of two transactions can interleave.
C26_CrossTransactionOrderFree ==
    \A k \in 1..Len(tasks) : ~tasks[k].done => ENABLED TaskSend(k)

\* C26 witness: the egress accepted the first frame of the second
\* transaction's task, then the frame of the first transaction's task, then
\* the second frame of the second transaction's task.
C26_Witness ==
    /\ Len(egress) = 3
    /\ egress[1].task = 2 /\ egress[1].index = 1
    /\ egress[2].task = 1 /\ egress[2].index = 1
    /\ egress[3].task = 2 /\ egress[3].index = 2
    /\ tasks[1].tx < tasks[2].tx

\* The frames the egress accepted from one task, in the order of acceptance
SentBy(k) == SelectSeq(egress, LAMBDA e : e.task = k)

\* C27: within one transaction the buffers are handed to the producer in the
\* order of the filter engine's output, on either transport: the buffer of a
\* message is handed over only after the buffers of all the messages before
\* it, and the egress accepts the transaction's frames in that order, each
\* being the buffer at its position.
C27_WithinTransactionOrder ==
    \A k \in 1..Len(tasks) :
        /\ \A j \in 1..Len(tasks[k].buffers) :
            tasks[k].attempts[j] > 0 => \A i \in 1..(j - 1) : tasks[k].attempts[i] > 0
        /\ \A a \in 1..Len(SentBy(k)) :
            /\ SentBy(k)[a].data = tasks[k].buffers[SentBy(k)[a].index]
            /\ \A b \in (a + 1)..Len(SentBy(k)) : SentBy(k)[a].index < SentBy(k)[b].index

\* C27 witness: on the Stdio transport both frames of a transaction with two
\* messages were written, the first message's first, with the frame of
\* another transaction between them.
C27_Witness ==
    /\ transport = "Stdio"
    /\ \E k \in 1..Len(tasks) :
        /\ Len(tasks[k].buffers) = 2
        /\ tasks[k].results = <<"ok", "ok">>
        /\ \E n1, n2, n3 \in 1..Len(egress) :
            /\ n1 < n2 /\ n2 < n3
            /\ egress[n1].task = k /\ egress[n1].index = 1
            /\ egress[n2].task # k
            /\ egress[n3].task = k /\ egress[n3].index = 2
    /\ Len(stdout) > 0

(***************************************************************************)
(* SpecScanner: S3Scanner::run (data_scanner/s3_scanner.rs) over the       *)
(* blocks of the archives, handle_block and the send tasks                 *)
(*                                                                         *)
(* The archives are taken to be fetched and parsed; the scanner's state is *)
(* the block it is at and the handle_block calls it has made.              *)
(***************************************************************************)
BlockOf(root_hash) == CHOOSE b \in Blocks : b.root_hash = root_hash

\* The blocks of the archive stream, by root hash. Block 2 is handled without
\* a block-level error; block 3 spawns a send task and then fails on its
\* second account block; blocks 4 and 5 fail before any transaction.
Archives ==
    { <<2, 3>>, <<3, 2>>, <<4, 2>>, <<1, 5>>, <<1, 2>> }

\* s3_scanner.rs:19-29  S3Scanner::new: retry_on_error from the configuration
InitScanner ==
    /\ PARSERS = <<init_all_parsers(BlockConfig).parsers>>
    /\ FilterIdle
    /\ pure_call = NoCall
    /\ RegistryIdle
    /\ HttpIdle
    /\ ProducerIdle
    /\ hb = NoBlockCall
    /\ tx_log = <<>>
    /\ tasks = <<>>
    /\ egress = <<>>
    /\ \E retry \in BOOLEAN, archive \in Archives :
        scanner = [pc |-> "loop", retry_on_error |-> retry,
                   archive |-> [i \in 1..Len(archive) |-> BlockOf(archive[i])],
                   block |-> 1, result |-> "", log |-> <<>>]

\* s3_scanner.rs:44-54  the scanner calls handle_block(&stuff, None) for the
\* block it is at
ScannerHandleBlock ==
    /\ scanner.pc = "loop"
    /\ hb.pc = "idle"
    /\ hb.calls < MaxScanCalls
    /\ hb' = handle_block_head(hb, scanner.archive[scanner.block])
    /\ UNCHANGED <<tx_log, tasks, egress, scanner,
                   PARSERS, filterVars, pureVars, registryVars, httpVars, producerVars>>

\* s3_scanner.rs:56-64  the match on the result of handle_block: Ok breaks out
\* of the loop and the for goes to the next block, or the stream ends and run
\* returns Ok; Err returns the error unless retry_on_error, and otherwise
\* the loop calls handle_block again with the same block
scanner_match_ignore_errors(s, result) ==
    LET entry == [block |-> s.block, result |-> result]
    IN IF s.block < Len(s.archive)
       THEN [s EXCEPT !.block = @ + 1, !.log = Append(@, entry)]
       ELSE [s EXCEPT !.pc = "done", !.result = "ok", !.log = Append(@, entry)]

scanner_match(s, result) ==
    LET entry == [block |-> s.block, result |-> result]
    IN IF result = "ok"
       THEN IF s.block < Len(s.archive)
            THEN [s EXCEPT !.block = @ + 1, !.log = Append(@, entry)]
            ELSE [s EXCEPT !.pc = "done", !.result = "ok", !.log = Append(@, entry)]
       ELSE IF ~s.retry_on_error
            THEN [s EXCEPT !.pc = "done", !.result = "err", !.log = Append(@, entry)]
            ELSE [s EXCEPT !.log = Append(@, entry)]

ScannerMatch ==
    /\ scanner.pc = "loop"
    /\ hb.pc = "returned"
    /\ scanner' = scanner_match(scanner, hb.result)
    /\ hb' = [hb EXCEPT !.pc = "idle", !.block = <<>>, !.ab = 0, !.txi = 0, !.result = ""]
    /\ UNCHANGED <<tx_log, tasks, egress,
                   PARSERS, filterVars, pureVars, registryVars, httpVars, producerVars>>

NextScanner ==
    \/ ScannerHandleBlock
    \/ HandleAccountBlock
    \/ HandleTransaction
    \/ ScannerMatch
    \/ \E k \in 1..Len(tasks) : TaskSend(k)

SpecScanner == InitScanner /\ [][NextScanner]_vars

\* C21: handle_block returns an error when the block extra, the dictionary of
\* account blocks or the state update of an account block cannot be decoded
\* (and ok otherwise); the scanner starts on the next block only after
\* handle_block returned ok for the current one; with retry_on_error false the
\* run ends with the error at the first failure; with retry_on_error true the
\* same block is submitted again.
C21_BlockErrorsGoToScanner ==
    LET log == scanner.log
    IN /\ hb.pc # "idle" => hb.block = scanner.archive[scanner.block]
       /\ hb.pc = "returned" =>
            hb.result = (IF BlockLevelOk(hb.block) THEN "ok" ELSE "err")
       /\ \A i \in 1..Len(log) :
            /\ log[i].result =
                    (IF BlockLevelOk(scanner.archive[log[i].block]) THEN "ok" ELSE "err")
            /\ i = 1 => log[i].block = 1
            /\ i > 1 =>
                    IF log[i - 1].result = "ok"
                    THEN log[i].block = log[i - 1].block + 1
                    ELSE scanner.retry_on_error /\ log[i].block = log[i - 1].block
            /\ (log[i].result = "err" /\ ~scanner.retry_on_error) =>
                    /\ i = Len(log)
                    /\ scanner.pc = "done"
                    /\ scanner.result = "err"
       /\ (scanner.pc = "loop" /\ log # <<>>) =>
            scanner.block = log[Len(log)].block
                                + (IF log[Len(log)].result = "ok" THEN 1 ELSE 0)
       /\ (scanner.pc = "done" /\ scanner.result = "ok") =>
            /\ log # <<>>
            /\ log[Len(log)] = [block |-> Len(scanner.archive), result |-> "ok"]
       /\ (scanner.pc = "done" /\ scanner.result = "err") =>
            /\ ~scanner.retry_on_error
            /\ log # <<>>
            /\ log[Len(log)].result = "err"

\* C21 witness: with retry_on_error the scanner went on to the second block
\* after the first returned ok, and has submitted the second block, whose
\* second account block does not decode, a second time after its error.
C21_Witness ==
    /\ scanner.retry_on_error
    /\ scanner.log = << [block |-> 1, result |-> "ok"], [block |-> 2, result |-> "err"] >>
    /\ hb.calls = 3
    /\ hb.pc = "returned"
    /\ hb.result = "err"
    /\ hb.block = scanner.archive[2]

\* The block of the c-th handle_block call of the scanner
BlockOfCall(c) ==
    IF c <= Len(scanner.log) THEN scanner.archive[scanner.log[c].block] ELSE hb.block

\* The number of account blocks handle_block goes through before it returns
RECURSIVE AccountBlocksDone(_, _)
AccountBlocksDone(account_blocks, a) ==
    IF a > Len(account_blocks) \/ ~account_blocks[a].state_update_ok THEN a - 1
    ELSE AccountBlocksDone(account_blocks, a + 1)

\* The transactions a complete handle_block call reaches
Reached(block) ==
    IF ~(block.extra_ok /\ block.account_blocks_ok) THEN <<>>
    ELSE RawOf(block.account_blocks, AccountBlocksDone(block.account_blocks, 1))

\* The buffers a call of transaction() moves into its task
BuffersOf(raw, block) ==
    serialize_all(filter_transaction(raw.t, <<>>, DefaultStartDate), block.root_hash,
                  raw.unserializable)

\* C30: handle_block has no rollback: every call dispatches the messages of
\* every transaction it reaches, also when it then returns a block-level
\* error; the tasks it spawned stay and run to their last buffer, and each
\* retry of the block by the scanner dispatches those messages again.
C30_NoRollbackOnRetry ==
    /\ \A i \in 1..Len(tx_log) :
        tx_log[i].raw.decodes =>
            LET k == tx_log[i].task
            IN /\ k \in 1..Len(tasks)
               /\ tasks[k].tx = i
               /\ tasks[k].buffers = BuffersOf(tx_log[i].raw, BlockOfCall(tx_log[i].call))
               /\ tasks[k].done =
                    (\A j \in 1..Len(tasks[k].buffers) : tasks[k].attempts[j] = 1)
    /\ \A c \in 1..hb.calls :
        (c <= Len(scanner.log) \/ hb.pc = "returned") =>
            LET log == CallLog(c)
                raws == Reached(BlockOfCall(c))
            IN /\ Len(log) = Len(raws)
               /\ \A i \in 1..Len(log) : log[i].raw = raws[i]

\* C30 witness: the block whose second account block fails was handled
\* twice; the message of its first transaction was dispatched by each call
\* and both frames were accepted by the egress.
C30_Witness ==
    /\ Len(scanner.log) >= 2
    /\ scanner.log[1] = [block |-> 1, result |-> "err"]
    /\ scanner.log[2] = [block |-> 1, result |-> "err"]
    /\ \E k1, k2 \in 1..Len(tasks) :
        /\ tx_log[tasks[k1].tx].call = 1
        /\ tx_log[tasks[k2].tx].call = 2
        /\ tasks[k1].buffers = tasks[k2].buffers
        /\ tasks[k1].buffers # <<>>
        /\ tasks[k1].done /\ tasks[k2].done
        /\ \E n1, n2 \in 1..Len(egress) :
            /\ egress[n1].task = k1
            /\ egress[n2].task = k2
            /\ egress[n1].data = egress[n2].data

====
